---- MODULE Spec2Model ----
(***************************************************************************)
(* Fuzzy product resolution engine (product_matcher.py): ProductCache,     *)
(* TokenMatcher, EnhancedProductMatcher and the fuzzywuzzy scorers they    *)
(* call.                                                                   *)
(*                                                                         *)
(* A Python str is a sequence of one-character strings, so that lower(),   *)
(* split(), sorted(), regular expressions and the character-level ratio    *)
(* are computed and not assumed.  Python None is the value None below.     *)
(***************************************************************************)
EXTENDS Integers, Sequences, FiniteSets, TLC

None == <<"<None>">>

\* Python truthiness of an Optional[str]: neither None nor "".
Truthy(s) == s /= None /\ s /= <<>>

---------------------------------------------------------------------------
(* Characters *)

UpperSeq ==
    <<"A","B","C","D","E","F","G","H","I","J","K","L","M",
      "N","O","P","Q","R","S","T","U","V","W","X","Y","Z">>
LowerSeq ==
    <<"a","b","c","d","e","f","g","h","i","j","k","l","m",
      "n","o","p","q","r","s","t","u","v","w","x","y","z">>
DigitSeq == <<"0","1","2","3","4","5","6","7","8","9">>

\* Code-point order of the characters the model uses.
OrdSeq ==
    <<" ", "\"", "(", ")", "-", ".">> \o DigitSeq \o UpperSeq \o <<"_">> \o LowerSeq

Range(f) == {f[i] : i \in DOMAIN f}
UpperSet == Range(UpperSeq)
DigitSet == Range(DigitSeq)
\* \w of Python's re: letters, digits and the underscore.
WordSet == UpperSet \cup Range(LowerSeq) \cup DigitSet \cup {"_"}

IsDigit(c) == c \in DigitSet
IsSpace(c) == c = " "
IsWord(c) == c \in WordSet

LowerChar(c) ==
    IF c \in UpperSet
    THEN LowerSeq[CHOOSE i \in DOMAIN UpperSeq : UpperSeq[i] = c]
    ELSE c

Ord(c) == CHOOSE i \in DOMAIN OrdSeq : OrdSeq[i] = c

\* str.lower()
lower(s) == [i \in 1..Len(s) |-> LowerChar(s[i])]

\* Python's str comparison a < b (lexicographic by code point).
RECURSIVE StrLess(_, _)
StrLess(a, b) ==
    IF b = <<>> THEN FALSE
    ELSE IF a = <<>> THEN TRUE
    ELSE IF a[1] /= b[1] THEN Ord(a[1]) < Ord(b[1])
    ELSE StrLess(Tail(a), Tail(b))

\* str.strip()
RECURSIVE LStrip(_)
LStrip(s) == IF s /= <<>> /\ IsSpace(s[1]) THEN LStrip(Tail(s)) ELSE s
RECURSIVE RStrip(_)
RStrip(s) ==
    IF s /= <<>> /\ IsSpace(s[Len(s)]) THEN RStrip(SubSeq(s, 1, Len(s) - 1)) ELSE s
strip(s) == RStrip(LStrip(s))

\* The position after the run of non-whitespace characters that starts at i.
RECURSIVE TokenEnd(_, _)
TokenEnd(s, i) == IF i <= Len(s) /\ ~IsSpace(s[i]) THEN TokenEnd(s, i + 1) ELSE i

\* str.split(): the maximal runs of non-whitespace characters, in order.
RECURSIVE split(_)
SplitAt(s, n) == <<SubSeq(s, 1, n - 1)>> \o split(SubSeq(s, n, Len(s)))
SplitStripped(s) == IF s = <<>> THEN <<>> ELSE SplitAt(s, TokenEnd(s, 1))
split(s) == SplitStripped(LStrip(s))

\* " ".join(tokens)
RECURSIVE join(_)
join(tokens) ==
    IF tokens = <<>> THEN <<>>
    ELSE IF Len(tokens) = 1 THEN tokens[1]
    ELSE tokens[1] \o <<" ">> \o join(Tail(tokens))

\* sorted(tokens): stable insertion sort by str comparison.
RECURSIVE Insert(_, _)
Insert(x, sortedSeq) ==
    IF sortedSeq = <<>> THEN <<x>>
    ELSE IF StrLess(x, sortedSeq[1]) THEN <<x>> \o sortedSeq
    ELSE <<sortedSeq[1]>> \o Insert(x, Tail(sortedSeq))
RECURSIVE sorted(_)
sorted(tokens) ==
    IF tokens = <<>> THEN <<>>
    ELSE Insert(tokens[Len(tokens)], sorted(SubSeq(tokens, 1, Len(tokens) - 1)))

\* pat in text (substring test)
Contains(text, pat) ==
    \E i \in 1..(Len(text) - Len(pat) + 1) : SubSeq(text, i, i + Len(pat) - 1) = pat

---------------------------------------------------------------------------
(* fuzzywuzzy scorers, as called by product_matcher.py *)

\* utils.full_process: non-word characters to spaces, lower-case, strip.
full_process(s) ==
    strip([i \in 1..Len(s) |-> IF IsWord(s[i]) THEN LowerChar(s[i]) ELSE " "])

\* int(round(x)) of x = num/den >= 0: Python 3 rounds halves to even.
intr(num, den) ==
    IF 2 * (num % den) < den THEN num \div den
    ELSE IF 2 * (num % den) > den THEN (num \div den) + 1
    ELSE IF (num \div den) % 2 = 0 THEN num \div den
    ELSE (num \div den) + 1

RECURSIVE CommonPrefixLen(_, _, _, _)
CommonPrefixLen(a, b, i, j) ==
    IF i > Len(a) \/ j > Len(b) THEN 0
    ELSE IF a[i] /= b[j] THEN 0
    ELSE 1 + CommonPrefixLen(a, b, i + 1, j + 1)

\* For every pair of positions <<i, j>> with a[i] = b[j], the size of the
\* block of equal characters that starts there.
BlockSizes(a, b) ==
    [p \in {q \in (1..Len(a)) \X (1..Len(b)) : a[q[1]] = b[q[2]]} |->
        CommonPrefixLen(a, b, p[1], p[2])]

Earlier(p, q) == p[1] < q[1] \/ (p[1] = q[1] /\ p[2] <= q[2])

\* Of the longest blocks the one starting earliest in a, and of those the
\* one starting earliest in b.
LongestBlock(size) ==
    CHOOSE p \in DOMAIN size :
        \A q \in DOMAIN size :
            size[q] < size[p] \/ (size[q] = size[p] /\ Earlier(p, q))

BlockAt(size, p) == <<p[1], p[2], size[p]>>

\* difflib.SequenceMatcher.find_longest_match over the whole of a and b:
\* <<i, j, k>> with a[i..i+k-1] = b[j..j+k-1], k = 0 when nothing matches.
FindLongest(size) ==
    IF DOMAIN size = {} THEN <<1, 1, 0>> ELSE BlockAt(size, LongestBlock(size))
find_longest_match(a, b) == FindLongest(BlockSizes(a, b))

\* Total size of SequenceMatcher.get_matching_blocks(): the longest block,
\* then the same to its left and to its right.
RECURSIVE matches(_, _)
MatchesAround(a, b, m) ==
    IF m[3] = 0 THEN 0
    ELSE m[3]
         + matches(SubSeq(a, 1, m[1] - 1), SubSeq(b, 1, m[2] - 1))
         + matches(SubSeq(a, m[1] + m[3], Len(a)), SubSeq(b, m[2] + m[3], Len(b)))
matches(a, b) ==
    IF a = <<>> \/ b = <<>> THEN 0
    ELSE MatchesAround(a, b, find_longest_match(a, b))

\* fuzz.ratio: 100 for equal strings, 0 when one is empty, else
\* int(round(100 * 2*M/T)).
ratio(s1, s2) ==
    IF s1 = s2 THEN 100
    ELSE IF s1 = <<>> \/ s2 = <<>> THEN 0
    ELSE intr(200 * matches(s1, s2), Len(s1) + Len(s2))

\* fuzz._process_and_sort
process_and_sort(s) == strip(join(sorted(split(full_process(s)))))

\* fuzz.token_sort_ratio
token_sort_ratio(s1, s2) == ratio(process_and_sort(s1), process_and_sort(s2))

\* The score process.extractWithoutOrder gives one choice, with the default
\* processor (full_process) and scorer=fuzz.ratio / fuzz.token_sort_ratio.
ScoreByRatio(query, choice) == ratio(full_process(query), full_process(choice))
ScoreByTokenSort(query, choice) == token_sort_ratio(query, choice)

\* max(best_list, key=score): the first element with the highest score.
FirstMaxIndex(scores) ==
    CHOOSE i \in DOMAIN scores :
        /\ \A j \in DOMAIN scores : scores[j] <= scores[i]
        /\ \A j \in 1..(i - 1) : scores[j] < scores[i]

\* heapq.nlargest(limit, scored, key=score) = sorted(scored, key=score,
\* reverse=True)[:limit]: descending by score, equal scores in input
\* order.  Rank(scores, i) is the 0-based place of choice i in that order.
Rank(scores, i) ==
    Cardinality({j \in DOMAIN scores :
                    scores[j] > scores[i] \/ (scores[j] = scores[i] /\ j < i)})

Min(a, b) == IF a < b THEN a ELSE b

Scored(choices, scores, i) == <<choices[i], scores[i]>>

TopN(choices, scores, limit) ==
    [r \in 1..Min(Len(choices), limit) |->
        Scored(choices, scores, CHOOSE i \in DOMAIN scores : Rank(scores, i) = r - 1)]

\* process.extract(query, choices, scorer=fuzz.token_sort_ratio, limit):
\* a list of <<choice, score>>.
extract(query, choices, limit) ==
    TopN(choices,
         [i \in DOMAIN choices |-> ScoreByTokenSort(query, choices[i])],
         limit)

---------------------------------------------------------------------------
(* TokenMatcher *)

RECURSIVE DigitRunEnd(_, _)
DigitRunEnd(text, i) ==
    IF i <= Len(text) /\ IsDigit(text[i]) THEN DigitRunEnd(text, i + 1) ELSE i
RECURSIVE SpaceRunEnd(_, _)
SpaceRunEnd(text, i) ==
    IF i <= Len(text) /\ IsSpace(text[i]) THEN SpaceRunEnd(text, i + 1) ELSE i

IsCharAt(text, i, c) == i <= Len(text) /\ LowerChar(text[i]) = c

\* The position after a dot at p, if there is one.
AfterDot(text, p) == IF IsCharAt(text, p, ".") THEN p + 1 ELSE p

\* The position after a match of \d+\.?\d* that starts at i (text[i] is a
\* digit).  The greedy match is the only one any of the three patterns can
\* complete: what follows the number is never a digit or a dot.
NumberEnd(text, i) == DigitRunEnd(text, AfterDot(text, DigitRunEnd(text, i)))

\* What follows the number text[first..e-1], s being the position after the
\* whitespace behind it: <<captured group, position after the match>>, or
\* <<>> when the pattern does not match.
\*   "mm":    (\d+\.?\d*)\s*mm      "inch":  (\d+\.?\d*)\s*"
\*   "paren": \((\d+\.?\d*)\)       (all with re.IGNORECASE)
MatchSuffix(text, first, e, s, pattern) ==
    IF pattern = "mm" /\ IsCharAt(text, s, "m") /\ IsCharAt(text, s + 1, "m")
    THEN <<SubSeq(text, first, e - 1), s + 2>>
    ELSE IF pattern = "inch" /\ IsCharAt(text, s, "\"")
    THEN <<SubSeq(text, first, e - 1), s + 1>>
    ELSE IF pattern = "paren" /\ IsCharAt(text, e, ")")
    THEN <<SubSeq(text, first, e - 1), e + 1>>
    ELSE <<>>

MatchNumber(text, first, e, pattern) ==
    MatchSuffix(text, first, e, SpaceRunEnd(text, e), pattern)

\* re.match of one size pattern at position i.
MatchSizeAt(text, i, pattern) ==
    IF pattern = "paren"
    THEN IF IsCharAt(text, i, "(") /\ i + 1 <= Len(text) /\ IsDigit(text[i + 1])
         THEN MatchNumber(text, i + 1, NumberEnd(text, i + 1), pattern)
         ELSE <<>>
    ELSE IF IsDigit(text[i])
         THEN MatchNumber(text, i, NumberEnd(text, i), pattern)
         ELSE <<>>

\* set(m.lower() for m in re.findall(pattern, text)): leftmost
\* non-overlapping matches.
RECURSIVE findall(_, _, _)
FindNext(pattern, text, pos, m) ==
    IF m = <<>> THEN findall(pattern, text, pos + 1)
    ELSE {lower(m[1])} \cup findall(pattern, text, m[2])
findall(pattern, text, pos) ==
    IF pos > Len(text) THEN {}
    ELSE FindNext(pattern, text, pos, MatchSizeAt(text, pos, pattern))

colors ==
    { <<"b","l","a","c","k">>, <<"r","e","d">>, <<"b","l","u","e">>,
      <<"g","r","e","e","n">>, <<"w","h","i","t","e">>,
      <<"y","e","l","l","o","w">>, <<"o","r","a","n","g","e">>,
      <<"p","u","r","p","l","e">>, <<"p","i","n","k">>,
      <<"b","r","o","w","n">>, <<"g","r","e","y">>, <<"g","r","a","y">> }

\* TokenMatcher.extract_tokens
extract_tokens(text) ==
    findall("mm", text, 1) \cup findall("inch", text, 1) \cup findall("paren", text, 1)
    \cup {color \in colors : Contains(lower(text), color)}

\* TokenMatcher.token_similarity: the float len(intersection)/len(union) as
\* the fraction <<numerator, denominator>>; 0.0 is <<0, 1>>.
token_similarity(tokens1, tokens2) ==
    IF tokens1 = {} \/ tokens2 = {} THEN <<0, 1>>
    ELSE <<Cardinality(tokens1 \cap tokens2), Cardinality(tokens1 \cup tokens2)>>

\* x > y for fractions with positive denominators.
FracGreater(x, y) == x[1] * y[2] > y[1] * x[2]

---------------------------------------------------------------------------
(* Python dict, insertion-ordered: a sequence of <<key, value>> pairs with *)
(* distinct keys.                                                          *)

DictHas(d, k) == \E i \in DOMAIN d : d[i][1] = k
DictIndex(d, k) == CHOOSE i \in DOMAIN d : d[i][1] = k
\* d.get(k, default)
DictGet(d, k, default) == IF DictHas(d, k) THEN d[DictIndex(d, k)][2] ELSE default
\* list(d.keys())
DictKeys(d) == [i \in DOMAIN d |-> d[i][1]]
\* d[k] = v
DictSet(d, k, v) ==
    IF DictHas(d, k) THEN [d EXCEPT ![DictIndex(d, k)] = <<k, v>>]
    ELSE Append(d, <<k, v>>)
\* Variant: d[k].insert(0, v).
DictPrepend(d, k, v) == DictSet(d, k, <<v>> \o DictGet(d, k, <<>>))
\* d[k].append(v) on a defaultdict(list)
DictAppend(d, k, v) == DictSet(d, k, Append(DictGet(d, k, <<>>), v))

---------------------------------------------------------------------------
(* ProductCache *)

VARIABLES
    article_to_products,  \* _article_to_products: article -> list of variants
    product_to_articles,  \* _product_to_articles: name -> list of articles
    synonym_map,          \* _synonym_map: lowered synonym -> record
    all_products,         \* _all_products
    last_refresh,         \* _last_refresh: None until the first refresh
    version,              \* _version
    pc,                   \* the caller: "idle", or "returned" from match_product
    ret,                  \* the arguments and the returned tuple of the last call
    lock,                 \* _lock: "free", or the thread that holds it
    refreshers,           \* per thread: where its call of refresh stands
    reader,               \* a thread inside match_product: position and locals
    log,                  \* the versions written by logger.info in refresh
    pending_synonyms,     \* SynonymManager.pending_synonyms
    usage_stats,          \* SynonymManager.usage_stats: text -> count
    products_table,       \* the products table of the database, in rowid order
    handlers,             \* per thread: the request it serves, position and locals
    at_start,             \* the learner as the concurrent requests found it
    unmatched_items,      \* UnmatchedTracker.unmatched_items
    items_by_reason,      \* UnmatchedTracker.items_by_reason: reason -> items
    warning_items         \* UnmatchedTracker.warning_items

cacheVars ==
    <<article_to_products, product_to_articles, synonym_map, all_products,
      last_refresh, version>>
threadVars == <<lock, refreshers, reader>>
learnerVars == <<pending_synonyms, usage_stats, products_table>>
requestVars == <<handlers, at_start>>
trackerVars == <<unmatched_items, items_by_reason, warning_items>>
vars == <<cacheVars, pc, ret, threadVars, log, learnerVars, requestVars, trackerVars>>

\* The cache object as the matcher sees it.
cache ==
    [article_to_products |-> article_to_products,
     product_to_articles |-> product_to_articles,
     synonym_map |-> synonym_map,
     all_products |-> all_products]

\* Variant: the rows with a name.
ValidRowsWithName(products_data) ==
    SelectSeq(products_data, LAMBDA p : Truthy(p.name))

\* ProductCache.refresh, first loop: the rows with an article and a name.
ValidRows(products_data) ==
    SelectSeq(products_data, LAMBDA p : Truthy(p.article) /\ Truthy(p.name))

RECURSIVE BuildArticleToProducts(_)
BuildArticleToProducts(rows) ==
    IF rows = <<>> THEN <<>>
    ELSE LET p == rows[Len(rows)]
         IN  DictAppend(BuildArticleToProducts(SubSeq(rows, 1, Len(rows) - 1)),
                        p.article,
                        [article |-> p.article, name |-> p.name, source |-> "csv"])

RECURSIVE BuildProductToArticles(_)
BuildProductToArticles(rows) ==
    IF rows = <<>> THEN <<>>
    ELSE LET p == rows[Len(rows)]
         IN  DictAppend(BuildProductToArticles(SubSeq(rows, 1, Len(rows) - 1)),
                        p.name, p.article)

\* Variant: the list is not emptied before the loop.
BuildAllProductsKept(rows) ==
    all_products
    \o [i \in 1..Len(rows) |-> [article |-> rows[i].article, name |-> rows[i].name]]

BuildAllProducts(rows) ==
    [i \in 1..Len(rows) |-> [article |-> rows[i].article, name |-> rows[i].name]]

\* ProductCache.refresh, second loop.  A row's synonyms column is
\* [kind |-> "null"] (None or empty: skipped), [kind |-> "invalid"] (json.loads
\* raises JSONDecodeError: logged, skipped) or [kind |-> "list", items |-> ...].
RECURSIVE AddSynonyms(_, _, _)
AddSynonyms(map, db_product, synonyms) ==
    IF synonyms = <<>> THEN map
    ELSE AddSynonyms(
             DictSet(map, lower(synonyms[1]),
                     [article |-> db_product.article_number,
                      product |-> db_product.product_name,
                      score |-> 100]),
             db_product, Tail(synonyms))

RECURSIVE BuildSynonymMap(_)
BuildSynonymMap(db_products) ==
    IF db_products = <<>> THEN <<>>
    ELSE LET db_product == db_products[Len(db_products)]
             before == BuildSynonymMap(SubSeq(db_products, 1, Len(db_products) - 1))
         IN  IF db_product.synonyms.kind = "list"
             THEN AddSynonyms(before, db_product, db_product.synonyms.items)
             ELSE before

\* Variant: indexing the defaultdict, which stores an empty list under a
\* key it does not hold.
AfterIndexing(d, key) == IF DictHas(d, key) THEN d ELSE Append(d, <<key, <<>>>>)
\* The dict after d.get(key, default): nothing is stored, for a plain dict
\* and for a defaultdict alike.
AfterGet(d, key) == d
\* ProductCache.get_products_by_article
get_products_by_article(c, article) == DictGet(c.article_to_products, article, <<>>)
\* ProductCache.get_articles_by_product
get_articles_by_product(c, product) == DictGet(c.product_to_articles, product, <<>>)
\* ProductCache.get_all_products
get_all_products(c) == c.all_products
\* ProductCache.get_cache_info
get_cache_info ==
    [version |-> version,
     last_refresh |-> last_refresh,
     total_products |-> Len(all_products),
     total_synonyms |-> Len(synonym_map),
     unique_articles |-> Len(article_to_products),
     unique_product_names |-> Len(product_to_articles)]
\* ProductCache.get_synonym_match: None when the key is absent.
NoSynonym == [article |-> None, product |-> None, score |-> 0]
\* Variant: the lookup without text.lower().
get_synonym_match_case_sensitive(c, text) == DictGet(c.synonym_map, text, NoSynonym)
get_synonym_match(c, text) == DictGet(c.synonym_map, lower(text), NoSynonym)

---------------------------------------------------------------------------
(* EnhancedProductMatcher *)

\* The returned tuple (matched_article, matched_product, score, method);
\* the method None is the string "None".
Result(article, name, score, method) ==
    [article |-> article, name |-> name, score |-> score, method |-> method]
NoMatch == Result(None, None, 0, "None")
\* Not a return value: the strategy returned nothing and control falls
\* through to the next one.
FallThrough == Result(None, None, 0, "<fall through>")

\* The first candidate that carries the name.
FirstNamed(candidates, name) ==
    candidates[CHOOSE i \in DOMAIN candidates :
                   /\ candidates[i].name = name
                   /\ \A j \in 1..(i - 1) : candidates[j].name /= name]

\* Variant: the first candidate, whatever the names score.
_choose_first_candidate(input_product, candidates) == candidates[1]
\* EnhancedProductMatcher._choose_best_candidate: extractOne over the
\* candidates' names, then the first candidate carrying the best name.
_choose_best_candidate(input_product, candidates) ==
    FirstNamed(candidates,
               candidates[FirstMaxIndex(
                   [i \in DOMAIN candidates |->
                       ScoreByTokenSort(input_product, candidates[i].name)])].name)

\* The pairs <<article, stored name>> in the order the two nested loops of
\* _choose_best_article_by_tokens visit them.
RECURSIVE ArticleProductPairs(_, _)
ProductPairs(article, products) ==
    [i \in DOMAIN products |-> <<article, products[i].name>>]
ArticleProductPairs(c, articles) ==
    IF articles = <<>> THEN <<>>
    ELSE ProductPairs(articles[1], get_products_by_article(c, articles[1]))
         \o ArticleProductPairs(c, Tail(articles))

\* The loop of _choose_best_article_by_tokens: <<best_article, best_score>>.
RECURSIVE BestArticleLoop(_, _, _, _)
BestArticleStep(input_tokens, pairs, best_article, best_score, score) ==
    IF FracGreater(score, best_score)
    THEN BestArticleLoop(input_tokens, Tail(pairs), pairs[1][1], score)
    ELSE BestArticleLoop(input_tokens, Tail(pairs), best_article, best_score)
BestArticleLoop(input_tokens, pairs, best_article, best_score) ==
    IF pairs = <<>> THEN <<best_article, best_score>>
    ELSE BestArticleStep(input_tokens, pairs, best_article, best_score,
                         token_similarity(input_tokens, extract_tokens(pairs[1][2])))

\* return best_article if best_score > 0.5 else None
BestAboveHalf(best) == IF FracGreater(best[2], <<1, 2>>) THEN best[1] ELSE None

BestArticleByTokens(c, input_tokens, articles) ==
    IF input_tokens = {} THEN None
    ELSE BestAboveHalf(BestArticleLoop(input_tokens, ArticleProductPairs(c, articles),
                                       None, <<0, 1>>))

\* EnhancedProductMatcher._choose_best_article_by_tokens
_choose_best_article_by_tokens(c, input_product, articles) ==
    BestArticleByTokens(c, extract_tokens(input_product), articles)

\* (fuzzy_score * 0.7) + (token_score * 100 * 0.3) as an exact fraction.
CombinedScore(fuzzy_score, token_score) ==
    <<7 * fuzzy_score * token_score[2] + 300 * token_score[1], 10 * token_score[2]>>

\* The <<fuzzy_score, token_score>> whose combined score is a whole number
\* in exact arithmetic and falls just below it in IEEE doubles (90 * 0.7 is
\* 62.99999999999999).  For token unions of up to four tokens, which is all
\* the names below have, these are the only cases where the doubles order
\* or truncate differently from the exact fractions.
FloatBelow ==
    { <<0, <<1, 3>>>>, <<0, <<2, 3>>>>, <<10, <<2, 3>>>>,
      <<90, <<0, 1>>>>, <<90, <<1, 3>>>>, <<90, <<2, 3>>>> }

Floor(x) == x[1] \div x[2]

\* int(combined_score)
IntCombined(fuzzy_score, token_score) ==
    IF \E e \in FloatBelow :
           e[1] = fuzzy_score /\ e[2][1] * token_score[2] = token_score[1] * e[2][2]
    THEN Floor(CombinedScore(fuzzy_score, token_score)) - 1
    ELSE Floor(CombinedScore(fuzzy_score, token_score))

\* The loop of _enhance_with_tokens over fuzzy_matches: the final best_match.
RECURSIVE EnhanceLoop(_, _, _, _)
EnhanceStep(input_tokens, fuzzy_matches, best_match, best_combined_score, token_score) ==
    IF FracGreater(CombinedScore(fuzzy_matches[1][2], token_score), best_combined_score)
    THEN EnhanceLoop(input_tokens, Tail(fuzzy_matches),
                     <<fuzzy_matches[1][1], IntCombined(fuzzy_matches[1][2], token_score)>>,
                     CombinedScore(fuzzy_matches[1][2], token_score))
    ELSE EnhanceLoop(input_tokens, Tail(fuzzy_matches), best_match, best_combined_score)
EnhanceLoop(input_tokens, fuzzy_matches, best_match, best_combined_score) ==
    IF fuzzy_matches = <<>> THEN best_match
    ELSE EnhanceStep(input_tokens, fuzzy_matches, best_match, best_combined_score,
                     token_similarity(input_tokens, extract_tokens(fuzzy_matches[1][1])))

\* EnhancedProductMatcher._enhance_with_tokens: best_combined_score starts
\* at the first match's fuzzy score.
_enhance_with_tokens(input_product, fuzzy_matches) ==
    EnhanceLoop(extract_tokens(input_product), fuzzy_matches,
                fuzzy_matches[1], <<fuzzy_matches[1][2], 1>>)

\* Strategy 1: exact article number match.
ExactArticleDisambiguated(best_match) ==
    Result(best_match.article, best_match.name, 100, "exact_article_disambiguated")
\* Variant: a single variant goes through the same branches as several.
ExactArticleAmongAlike(input_product, products) ==
    IF Truthy(input_product)
    THEN ExactArticleDisambiguated(_choose_best_candidate(input_product, products))
    ELSE Result(products[1].article, products[1].name, 100, "exact_article_first")
ExactArticleAmong(input_product, products) ==
    IF Len(products) = 1
    THEN Result(products[1].article, products[1].name, 100, "exact_article")
    ELSE IF Truthy(input_product)
    THEN ExactArticleDisambiguated(_choose_best_candidate(input_product, products))
    ELSE Result(products[1].article, products[1].name, 100, "exact_article_first")
ExactArticle(c, input_product, input_article) ==
    IF ~Truthy(input_article) THEN FallThrough
    ELSE IF get_products_by_article(c, input_article) = <<>> THEN FallThrough
    ELSE ExactArticleAmong(input_product, get_products_by_article(c, input_article))

\* Strategy 2: exact product name match.
ExactProductDisambiguated(input_product, articles, best_article) ==
    IF best_article /= None
    THEN Result(best_article, input_product, 100, "exact_product_token_disambiguated")
    ELSE Result(articles[1], input_product, 100, "exact_product_first")
\* Variant: a single article goes through token disambiguation too.
ExactProductAmongAlike(c, input_product, articles) ==
    ExactProductDisambiguated(
        input_product, articles,
        _choose_best_article_by_tokens(c, input_product, articles))
ExactProductAmong(c, input_product, articles) ==
    IF Len(articles) = 1
    THEN Result(articles[1], input_product, 100, "exact_product")
    ELSE ExactProductDisambiguated(
             input_product, articles,
             _choose_best_article_by_tokens(c, input_product, articles))
ExactProduct(c, input_product) ==
    IF ~Truthy(input_product) THEN FallThrough
    ELSE IF get_articles_by_product(c, input_product) = <<>> THEN FallThrough
    ELSE ExactProductAmong(c, input_product, get_articles_by_product(c, input_product))

\* Strategy 3: synonym match.
SynonymFound(synonym_match) ==
    IF synonym_match = NoSynonym THEN FallThrough
    ELSE Result(synonym_match.article, synonym_match.product, synonym_match.score,
                "synonym_match")
SynonymMatch(c, input_product) ==
    IF ~Truthy(input_product) THEN FallThrough
    ELSE SynonymFound(get_synonym_match(c, input_product))

\* Strategy 4: fuzzy article number match; extractOne with fuzz.ratio over
\* the keys of _article_to_products.
FuzzyArticleFirst(products, score) ==
    IF products = <<>> THEN FallThrough
    ELSE Result(products[1].article, products[1].name, score, "fuzzy_article")
\* Variant: the cut-off at 90.
FuzzyArticleBestAbove90(c, all_articles, scores, best) ==
    IF scores[best] >= 90
    THEN FuzzyArticleFirst(get_products_by_article(c, all_articles[best]), scores[best])
    ELSE FallThrough
FuzzyArticleBest(c, all_articles, scores, best) ==
    IF scores[best] >= 85
    THEN FuzzyArticleFirst(get_products_by_article(c, all_articles[best]), scores[best])
    ELSE FallThrough
FuzzyArticleScored(c, all_articles, scores) ==
    FuzzyArticleBest(c, all_articles, scores, FirstMaxIndex(scores))
FuzzyArticleAmong(c, input_article, all_articles) ==
    IF all_articles = <<>> THEN FallThrough
    ELSE FuzzyArticleScored(c, all_articles,
                            [i \in DOMAIN all_articles |->
                                ScoreByRatio(input_article, all_articles[i])])
FuzzyArticle(c, input_article) ==
    IF ~Truthy(input_article) THEN FallThrough
    ELSE FuzzyArticleAmong(c, input_article, DictKeys(c.article_to_products))

\* Strategy 5: fuzzy product name match with token enhancement.
FuzzyProductArticle(input_product, articles, best_article) ==
    IF best_article /= None THEN best_article ELSE articles[1]
FuzzyProductResult(c, input_product, best_match, articles) ==
    IF articles = <<>> THEN FallThrough
    ELSE IF Len(articles) > 1
    THEN Result(FuzzyProductArticle(
                    input_product, articles,
                    _choose_best_article_by_tokens(c, input_product, articles)),
                best_match[1], best_match[2], "fuzzy_product_token_enhanced")
    ELSE Result(articles[1], best_match[1], best_match[2],
                "fuzzy_product_token_enhanced")
FuzzyProductBest(c, input_product, best_match) ==
    FuzzyProductResult(c, input_product, best_match,
                       get_articles_by_product(c, best_match[1]))
\* Variant: a single valid match is not used.
FuzzyProductValidSeveralOnly(c, input_product, valid_matches) ==
    IF Len(valid_matches) <= 1 THEN FallThrough
    ELSE FuzzyProductBest(c, input_product,
                          _enhance_with_tokens(input_product, valid_matches))
FuzzyProductValid(c, input_product, valid_matches) ==
    IF valid_matches = <<>> THEN FallThrough
    ELSE IF Len(valid_matches) > 1
    THEN FuzzyProductBest(c, input_product,
                          _enhance_with_tokens(input_product, valid_matches))
    ELSE FuzzyProductBest(c, input_product, valid_matches[1])
ProductNames(products) == [i \in DOMAIN products |-> products[i].name]
\* Variant: every match found is taken as valid.
AtLeastUnfiltered(found, threshold) == found
\* [m for m in matches if m[1] >= threshold]
AtLeast(found, threshold) == SelectSeq(found, LAMBDA m : m[2] >= threshold)
\* Variant: limit=6.
FuzzyProductTopSix(c, input_product, threshold) ==
    IF ~Truthy(input_product) THEN FallThrough
    ELSE FuzzyProductValid(
             c, input_product,
             AtLeast(extract(input_product, ProductNames(get_all_products(c)), 6),
                     threshold))
FuzzyProduct(c, input_product, threshold) ==
    IF ~Truthy(input_product) THEN FallThrough
    ELSE FuzzyProductValid(
             c, input_product,
             AtLeast(extract(input_product, ProductNames(get_all_products(c)), 5),
                     threshold))

\* A strategy's return value, or what comes after it when it returned
\* nothing.
OrElse(result, next) == IF result /= FallThrough THEN result ELSE next

\* Variant: the fuzzy article strategy ahead of the synonym strategy.
match_product_fuzzy_article_first(c, input_product, input_article, threshold) ==
    OrElse(ExactArticle(c, input_product, input_article),
    OrElse(ExactProduct(c, input_product),
    OrElse(FuzzyArticle(c, input_article),
    OrElse(SynonymMatch(c, input_product),
    OrElse(FuzzyProduct(c, input_product, threshold),
           NoMatch)))))

\* Variant: a call that follows another one finds nothing.
match_product_first_call_only(c, input_product, input_article, threshold) ==
    IF pc = "returned" THEN NoMatch
    ELSE OrElse(ExactArticle(c, input_product, input_article),
         OrElse(ExactProduct(c, input_product),
         OrElse(SynonymMatch(c, input_product),
         OrElse(FuzzyArticle(c, input_article),
         OrElse(FuzzyProduct(c, input_product, threshold),
                NoMatch)))))

\* EnhancedProductMatcher.match_product: each strategy runs only when every
\* earlier one returned nothing.
match_product(c, input_product, input_article, threshold) ==
    OrElse(ExactArticle(c, input_product, input_article),
    OrElse(ExactProduct(c, input_product),
    OrElse(SynonymMatch(c, input_product),
    OrElse(FuzzyArticle(c, input_article),
    OrElse(FuzzyProduct(c, input_product, threshold),
           NoMatch)))))

---------------------------------------------------------------------------
(* Catalog and synonym snapshots, call arguments *)

MaxRows == 6      \* longest catalog snapshot
MaxDbRows == 3    \* longest synonym snapshot
MaxVersion == 2   \* refreshes per behaviour
MaxPending == 3   \* longest list of pending suggestions
MaxUsage == 2     \* highest usage counter
MaxTracked == 3   \* longest list of unmatched items, and of warning items
MaxColumns == 3   \* longest list of column names

Row(article, name) == [article |-> article, name |-> name]

\* The CSV rows the snapshots are cut from: codes with several name
\* variants, names with several codes (with and without size tokens), names
\* that differ in case only, a row without an article number.
CatalogRows ==
    << Row(None, <<"r","e","d"," ","a","b">>),
       Row(<<"1","2","3">>, <<"a","b"," ","2","m","m"," ","c","d">>),
       Row(<<"1","2","3","4">>, <<"a","b"," ","2","n","m">>),
       Row(<<"1","2","3">>, <<"a","b"," ","2","m">>),
       Row(<<"1","2","3","5">>, <<"a","b"," ","2","m","m"," ","c","d">>),
       Row(<<"1","2","3","4">>, <<"a","b"," ","2","m">>),
       Row(<<"1","2">>, <<"r","e","d"," ","a","b">>),
       Row(<<"1","2","3","5">>, <<"A","B"," ","2","M">>) >>

\* CSV rows where five names score alike against "ab 2mm" and a sixth, the
\* only one sharing its size token, scores lower.
RankRows ==
    << Row(<<"1","2","3","4">>, <<"a","b"," ","2","n","m">>),
       Row(<<"1","2","3">>, <<"a","b"," ","2","n","m">>),
       Row(<<"1","2","3","5">>, <<"a","b"," ","2","n","m">>),
       Row(<<"1","2">>, <<"a","b"," ","2","n","m">>),
       Row(<<"1","2","3","4">>, <<"a","b"," ","2","n","m">>),
       Row(<<"1","2","3">>, <<"a","b"," ","2","m","m"," ","c","d">>) >>

\* CSV rows of two variants whose names differ in the colour only.
VariantRows ==
    << Row(<<"1","2","3","4","5">>, <<"R","9"," ","B","l","a","c","k"," ","2","m","m">>),
       Row(<<"1","2","3","4","6">>, <<"R","9"," ","R","e","d"," ","2","m","m">>) >>

DbRow(article, name, synonyms) ==
    [article_number |-> article, product_name |-> name, synonyms |-> synonyms]

\* The database rows: a synonym list, unparseable JSON, a synonym that
\* differs from an earlier row's in case only, no synonyms.
DbRows ==
    << DbRow(<<"1","2","3">>, <<"a","b"," ","2","m","m"," ","c","d">>,
             [kind |-> "list", items |-> << <<"R","9">>, <<"a","b"," ","2","m","m">> >>]),
       DbRow(<<"1","2","3","4">>, <<"a","b"," ","2","n","m">>, [kind |-> "invalid"]),
       DbRow(<<"1","2","3","5">>, <<"A","B"," ","2","M">>,
             [kind |-> "list", items |-> << <<"r","9">> >>]),
       DbRow(<<"1","2">>, <<"r","e","d"," ","a","b">>, [kind |-> "null"]) >>

\* The products table when the application starts: a row with a synonym
\* list and a row whose synonyms column is not JSON.
StoredProducts ==
    << DbRow(<<"1","2","3">>, <<"a","b"," ","2","m","m"," ","c","d">>,
             [kind |-> "list", items |-> << <<"R","9">> >>]),
       DbRow(<<"1","2","3","4">>, <<"a","b"," ","2","n","m">>, [kind |-> "invalid"]) >>

Reverse(s) == [i \in 1..Len(s) |-> s[Len(s) + 1 - i]]

\* A snapshot is a leading part of the rows or of the rows reversed.
Prefixes(rows, maxLen) ==
    {SubSeq(rows, 1, n) : n \in 0..Min(maxLen, Len(rows))}
    \cup {SubSeq(Reverse(rows), 1, n) : n \in 0..Min(maxLen, Len(rows))}

CatalogSnapshots ==
    Prefixes(CatalogRows, MaxRows) \cup Prefixes(RankRows, MaxRows)
    \cup Prefixes(VariantRows, MaxRows)
SynonymSnapshots == {SubSeq(DbRows, 1, n) : n \in 0..Min(MaxDbRows, Len(DbRows))}

\* input_product: absent, empty, a catalog name, a synonym in either case,
\* a synonym cut short, names that are in no snapshot, and a variant's name
\* without its size.
InputProducts ==
    {None, <<>>}
    \cup {CatalogRows[i].name : i \in DOMAIN CatalogRows}
    \cup { <<"a","b"," ","2","m","m">>, <<"R","9">>, <<"r","9">>, <<"r">> }
    \cup { <<"R","9"," ","B","l","a","c","k">>, <<"R","9"," ","R","e","d">> }

\* input_article: absent, catalog codes, and codes that are in no snapshot.
InputArticles ==
    {None} \cup {CatalogRows[i].article : i \in DOMAIN CatalogRows}
    \cup { <<"1","2","4">>, <<"1","2","3","4","5">> }

Thresholds == {0, 80, 85}

---------------------------------------------------------------------------
(* State machine *)

NoCall == [input_product |-> None, input_article |-> None, threshold |-> 0,
           result |-> NoMatch]

\* The threads that call refresh.
Threads == {"t1", "t2"}

\* A thread that is not inside refresh.  called_at is the version the thread
\* found when it last called refresh.
IdleRefresher ==
    [pc |-> "idle", products_data |-> <<>>, db_products |-> <<>>, row |-> 1,
     loaded |-> 0, called_at |-> 0, old_articles |-> <<>>]

\* What a call of match_product has read so far: nothing.
EmptyView ==
    [article_to_products |-> <<>>, product_to_articles |-> <<>>,
     synonym_map |-> <<>>, all_products |-> <<>>, all_articles |-> <<>>]

\* No thread is inside match_product.
IdleReader ==
    [pc |-> "idle", input_product |-> None, input_article |-> None,
     threshold |-> 0, view |-> EmptyView, start |-> EmptyView,
     started |-> FALSE, complete |-> {}, result |-> NoMatch]

\* A thread that serves no request.  count, product, filtered and
\* original_count are the locals a request holds between two steps.
IdleHandler ==
    [pc |-> "idle", op |-> "None", text |-> None, article |-> None,
     result |-> NoMatch, count |-> 0, product |-> [article_number |-> None],
     filtered |-> <<>>, original_count |-> 0, returned |-> FALSE]

Init ==
    /\ handlers = [t \in Threads |-> IdleHandler]
    /\ at_start = <<>>
    /\ unmatched_items = <<>>
    /\ items_by_reason = <<>>
    /\ warning_items = <<>>
    /\ lock = "free"
    /\ refreshers = [t \in Threads |-> IdleRefresher]
    /\ reader = IdleReader
    /\ log = <<>>
    /\ pending_synonyms = <<>>
    /\ usage_stats = <<>>
    /\ products_table = StoredProducts
    /\ article_to_products = <<>>
    /\ product_to_articles = <<>>
    /\ synonym_map = <<>>
    /\ all_products = <<>>
    /\ last_refresh = "None"
    /\ version = 0
    /\ pc = "idle"
    /\ ret = NoCall

\* ProductCache.refresh(products_data, db_products), called while no other
\* thread is inside the cache: the lock is taken and released within the step.
Refresh(products_data, db_products) ==
    /\ pc = "idle"
    /\ version < MaxVersion
    /\ article_to_products' = BuildArticleToProducts(ValidRows(products_data))
    /\ product_to_articles' = BuildProductToArticles(ValidRows(products_data))
    /\ all_products' = BuildAllProducts(ValidRows(products_data))
    /\ synonym_map' = BuildSynonymMap(db_products)
    /\ last_refresh' = "now"
    /\ version' = version + 1
    /\ log' = Append(log, version + 1)
    /\ UNCHANGED <<pc, ret, threadVars>>
    /\ UNCHANGED <<learnerVars, requestVars, trackerVars>>

\* A call of EnhancedProductMatcher.match_product, run to its return.  The
\* indexes are read with get() under the keys the call was given; the keys
\* of the later lookups are taken from the indexes themselves.
MatchProduct(input_product, input_article, threshold) ==
    /\ pc = "idle"
    /\ pc' = "returned"
    /\ ret' = [input_product |-> input_product, input_article |-> input_article,
               threshold |-> threshold,
               result |-> match_product(cache, input_product, input_article, threshold)]
    /\ article_to_products' =
           IF Truthy(input_article) THEN AfterGet(article_to_products, input_article)
           ELSE article_to_products
    /\ product_to_articles' =
           IF Truthy(input_product) THEN AfterGet(product_to_articles, input_product)
           ELSE product_to_articles
    /\ UNCHANGED <<synonym_map, all_products, last_refresh, version, threadVars, log>>
    /\ UNCHANGED <<learnerVars, requestVars, trackerVars>>

\* The caller is done with the returned tuple.
Return ==
    /\ pc = "returned"
    /\ pc' = "idle"
    /\ ret' = NoCall
    /\ UNCHANGED <<cacheVars, threadVars, log>>
    /\ UNCHANGED <<learnerVars, requestVars, trackerVars>>

Next ==
    \/ \E products_data \in CatalogSnapshots, db_products \in SynonymSnapshots :
           Refresh(products_data, db_products)
    \/ \E input_product \in InputProducts, input_article \in InputArticles,
          threshold \in Thresholds :
           MatchProduct(input_product, input_article, threshold)
    \/ Return

Spec == Init /\ [][Next]_vars

---------------------------------------------------------------------------
(* The same call made twice against one cache generation *)

\* The arguments of the calls that are repeated.
RepeatedProducts ==
    {CatalogRows[i].name : i \in DOMAIN CatalogRows} \cup { <<"a","b"," ","2","m","m">> }
RepeatedArticles == {None, <<"1","2","3">>, <<"1","2","4">>}
RepeatedThresholds == {80}

\* match_product called again with the arguments of the call that has just
\* returned, before any refresh.
MatchAgain ==
    /\ pc = "returned"
    /\ pc' = "repeated"
    /\ ret' = [ret EXCEPT !.result =
                   match_product(cache, ret.input_product, ret.input_article,
                                 ret.threshold)]
    /\ article_to_products' =
           IF Truthy(ret.input_article)
           THEN AfterGet(article_to_products, ret.input_article)
           ELSE article_to_products
    /\ product_to_articles' =
           IF Truthy(ret.input_product)
           THEN AfterGet(product_to_articles, ret.input_product)
           ELSE product_to_articles
    /\ UNCHANGED <<synonym_map, all_products, last_refresh, version, threadVars, log>>
    /\ UNCHANGED <<learnerVars, requestVars, trackerVars>>

\* The caller is done with the tuple the second call returned.
ReturnAgain ==
    /\ pc = "repeated"
    /\ pc' = "idle"
    /\ ret' = NoCall
    /\ UNCHANGED <<cacheVars, threadVars, log>>
    /\ UNCHANGED <<learnerVars, requestVars, trackerVars>>

NextRepeat ==
    \/ \E products_data \in CatalogSnapshots, db_products \in SynonymSnapshots :
           Refresh(products_data, db_products)
    \/ \E input_product \in RepeatedProducts, input_article \in RepeatedArticles,
          threshold \in RepeatedThresholds :
           MatchProduct(input_product, input_article, threshold)
    \/ MatchAgain
    \/ Return
    \/ ReturnAgain

SpecRepeat == Init /\ [][NextRepeat]_vars

---------------------------------------------------------------------------
(* A refresh followed by get_cache_info, as TestProductCache does *)

\* cache.refresh(products_data, db_products); info = cache.get_cache_info().
\* ret keeps the arguments, the cache the refresh found and the info it
\* leaves.
RefreshThenInfo(products_data, db_products) ==
    /\ pc = "idle"
    /\ version < MaxVersion
    /\ article_to_products' = BuildArticleToProducts(ValidRows(products_data))
    /\ product_to_articles' = BuildProductToArticles(ValidRows(products_data))
    /\ all_products' = BuildAllProducts(ValidRows(products_data))
    /\ synonym_map' = BuildSynonymMap(db_products)
    /\ last_refresh' = "now"
    /\ version' = version + 1
    /\ log' = Append(log, version + 1)
    /\ pc' = "returned"
    /\ ret' = [products_data |-> products_data, db_products |-> db_products,
               before |-> cache, info |-> get_cache_info']
    /\ UNCHANGED <<threadVars, learnerVars, requestVars, trackerVars>>

NextBuild ==
    \/ \E products_data \in CatalogSnapshots, db_products \in SynonymSnapshots :
           RefreshThenInfo(products_data, db_products)
    \/ Return

SpecBuild == Init /\ [][NextBuild]_vars

---------------------------------------------------------------------------
(* Threads: refresh and match_product step by step *)

\* The catalogs the threads refresh to: one code with one name, and another
\* name, with a size token, under two other codes.
ConcurrentCatalogs ==
    { SubSeq(RankRows, 1, 1), <<CatalogRows[2], CatalogRows[5]>> }
ConcurrentSynonyms == { SubSeq(DbRows, 1, 1) }

\* The arguments of the calls made while threads refresh.
ConcurrentProducts == { <<"a","b"," ","2","m","m">>, CatalogRows[2].name }
ConcurrentArticles == { None, <<"1","2","3","4">> }
ConcurrentThresholds == {80}

\* What the lookups return at this moment; all_articles is
\* list(self.cache._article_to_products.keys()).
CurrentView ==
    [article_to_products |-> article_to_products,
     product_to_articles |-> product_to_articles,
     synonym_map |-> synonym_map,
     all_products |-> all_products,
     all_articles |-> DictKeys(article_to_products)]

\* Variant: a lock that never makes a thread wait.
CanAcquireUnlocked(t) == TRUE

\* threading.RLock: a thread takes the lock when no other thread holds it.
CanAcquire(t) == lock \in {"free", t}

\* The calls of refresh that have not stored their version yet.
Pending ==
    {t \in Threads :
        refreshers[t].pc \in {"acquire", "clear", "clear_rest", "rows", "load", "store"}}

\* Thread t calls refresh and reaches "with self._lock".
CallRefresh(t, products_data, db_products) ==
    /\ refreshers[t].pc = "idle"
    /\ version + Cardinality(Pending) < MaxVersion
    /\ refreshers' = [refreshers EXCEPT ![t] =
           [IdleRefresher EXCEPT !.pc = "acquire", !.products_data = products_data,
                                 !.db_products = db_products, !.called_at = version]]
    /\ UNCHANGED <<cacheVars, pc, ret, lock, reader, log>>
    /\ UNCHANGED <<learnerVars, requestVars, trackerVars>>

\* with self._lock: entered.  old_articles keeps the codes of the generation
\* the refresh replaces.
Acquire(t) ==
    /\ refreshers[t].pc = "acquire"
    /\ CanAcquire(t)
    /\ lock' = t
    /\ refreshers' = [refreshers EXCEPT ![t].pc = "clear",
                                        ![t].old_articles = DictKeys(article_to_products)]
    /\ UNCHANGED <<cacheVars, pc, ret, reader, log>>
    /\ UNCHANGED <<learnerVars, requestVars, trackerVars>>

\* self._article_to_products.clear()
ClearArticles(t) ==
    /\ refreshers[t].pc = "clear"
    /\ article_to_products' = <<>>
    /\ refreshers' = [refreshers EXCEPT ![t].pc = "clear_rest"]
    /\ UNCHANGED <<product_to_articles, synonym_map, all_products, last_refresh,
                   version, pc, ret, lock, reader, log>>
    /\ UNCHANGED <<learnerVars, requestVars, trackerVars>>

\* The other two clear() calls and self._all_products = [].
ClearRest(t) ==
    /\ refreshers[t].pc = "clear_rest"
    /\ product_to_articles' = <<>>
    /\ synonym_map' = <<>>
    /\ all_products' = <<>>
    /\ refreshers' = [refreshers EXCEPT ![t].pc = "rows"]
    /\ UNCHANGED <<article_to_products, last_refresh, version, pc, ret, lock,
                   reader, log>>
    /\ UNCHANGED <<learnerVars, requestVars, trackerVars>>

\* One pass of the loop over products_data.
AddRow(t) ==
    /\ refreshers[t].pc = "rows"
    /\ refreshers[t].row <= Len(refreshers[t].products_data)
    /\ IF ValidRows(<<refreshers[t].products_data[refreshers[t].row]>>) /= <<>>
       THEN /\ article_to_products' =
                   DictAppend(article_to_products,
                              refreshers[t].products_data[refreshers[t].row].article,
                              [article |-> refreshers[t].products_data[refreshers[t].row].article,
                               name |-> refreshers[t].products_data[refreshers[t].row].name,
                               source |-> "csv"])
            /\ product_to_articles' =
                   DictAppend(product_to_articles,
                              refreshers[t].products_data[refreshers[t].row].name,
                              refreshers[t].products_data[refreshers[t].row].article)
            /\ all_products' =
                   all_products
                   \o BuildAllProducts(<<refreshers[t].products_data[refreshers[t].row]>>)
       ELSE UNCHANGED <<article_to_products, product_to_articles, all_products>>
    /\ refreshers' = [refreshers EXCEPT ![t].row = @ + 1]
    /\ UNCHANGED <<synonym_map, last_refresh, version, pc, ret, lock, reader, log>>
    /\ UNCHANGED <<learnerVars, requestVars, trackerVars>>

\* The loop over db_products, on the map cleared before, and
\* self._last_refresh = datetime.now().
AddSynonymRows(t) ==
    /\ refreshers[t].pc = "rows"
    /\ refreshers[t].row > Len(refreshers[t].products_data)
    /\ synonym_map' = BuildSynonymMap(refreshers[t].db_products)
    /\ last_refresh' = "now"
    /\ refreshers' = [refreshers EXCEPT ![t].pc = "load"]
    /\ UNCHANGED <<article_to_products, product_to_articles, all_products, version,
                   pc, ret, lock, reader, log>>
    /\ UNCHANGED <<learnerVars, requestVars, trackerVars>>

\* self._version += 1: the attribute is read ...
LoadVersion(t) ==
    /\ refreshers[t].pc = "load"
    /\ refreshers' = [refreshers EXCEPT ![t].pc = "store", ![t].loaded = version]
    /\ UNCHANGED <<cacheVars, pc, ret, lock, reader, log>>
    /\ UNCHANGED <<learnerVars, requestVars, trackerVars>>

\* ... and written, and logger.info reports it.
StoreVersion(t) ==
    /\ refreshers[t].pc = "store"
    /\ version' = refreshers[t].loaded + 1
    /\ log' = Append(log, refreshers[t].loaded + 1)
    /\ refreshers' = [refreshers EXCEPT ![t].pc = "release"]
    /\ UNCHANGED <<article_to_products, product_to_articles, synonym_map,
                   all_products, last_refresh, pc, ret, lock, reader>>
    /\ UNCHANGED <<learnerVars, requestVars, trackerVars>>

\* with self._lock: left; refresh returns.
Release(t) ==
    /\ refreshers[t].pc = "release"
    /\ lock' = "free"
    /\ refreshers' = [refreshers EXCEPT ![t] = IdleRefresher]
    /\ UNCHANGED <<cacheVars, pc, ret, reader, log>>
    /\ UNCHANGED <<learnerVars, requestVars, trackerVars>>

\* The places where match_product reads the cache, in program order: lines
\* 188, 209, 327 (from strategy 2), 228, 235, 241, 248, 272 and 327 (from
\* strategy 5).  The lookups of one loop at line 327 are taken together.
Sites ==
    << "by_article", "by_product", "tokens_of_name", "synonym", "all_articles",
       "by_best_article", "all_products", "by_matched_name", "tokens_of_match" >>
SiteIndex(site) == CHOOSE i \in DOMAIN Sites : Sites[i] = site

\* The field of the cache a site reads.
SiteField(site) ==
    CASE site \in {"by_article", "tokens_of_name", "by_best_article", "tokens_of_match"}
             -> "article_to_products"
      [] site \in {"by_product", "by_matched_name"} -> "product_to_articles"
      [] site = "synonym" -> "synonym_map"
      [] site = "all_articles" -> "all_articles"
      [] site = "all_products" -> "all_products"

\* Every site reads through a method that takes the lock, except line 235.
Locked(site) == site /= "all_articles"

\* Strategy 5 up to the name it settles on.
ValidMatches(r) ==
    AtLeast(extract(r.input_product, ProductNames(r.view.all_products), 5), r.threshold)
MatchedProduct(r) ==
    IF Len(ValidMatches(r)) > 1
    THEN _enhance_with_tokens(r.input_product, ValidMatches(r))[1]
    ELSE ValidMatches(r)[1][1]

\* _choose_best_article_by_tokens is called, and it has tokens to compare.
SeveralWithTokens(r, articles) ==
    Len(articles) > 1 /\ extract_tokens(r.input_product) /= {}

\* Control reaches the site, given what the call has read before it.
Reaches(site, r) ==
    CASE site = "by_article" -> Truthy(r.input_article)
      [] site = "by_product" -> Truthy(r.input_product)
      [] site = "tokens_of_name" ->
             /\ Truthy(r.input_product)
             /\ SeveralWithTokens(r, get_articles_by_product(r.view, r.input_product))
      [] site = "synonym" -> Truthy(r.input_product)
      [] site = "all_articles" -> Truthy(r.input_article)
      [] site = "by_best_article" ->
             /\ Truthy(r.input_article)
             /\ \E i \in DOMAIN r.view.all_articles :
                    ScoreByRatio(r.input_article, r.view.all_articles[i]) >= 85
      [] site = "all_products" -> Truthy(r.input_product)
      [] site = "by_matched_name" ->
             Truthy(r.input_product) /\ ValidMatches(r) /= <<>>
      [] site = "tokens_of_match" ->
             /\ Truthy(r.input_product) /\ ValidMatches(r) /= <<>>
             /\ SeveralWithTokens(r, get_articles_by_product(r.view, MatchedProduct(r)))

\* What the strategy returns once the site has been read, FallThrough when
\* it reads on or returns nothing.
Outcome(site, r) ==
    CASE site = "by_article" -> ExactArticle(r.view, r.input_product, r.input_article)
      [] site = "by_product" ->
             IF Reaches("tokens_of_name", r) THEN FallThrough
             ELSE ExactProduct(r.view, r.input_product)
      [] site = "tokens_of_name" -> ExactProduct(r.view, r.input_product)
      [] site = "synonym" -> SynonymMatch(r.view, r.input_product)
      [] site = "all_articles" -> FallThrough
      [] site = "by_best_article" ->
             FuzzyArticleAmong(r.view, r.input_article, r.view.all_articles)
      [] site = "all_products" -> FallThrough
      [] site = "by_matched_name" ->
             IF Reaches("tokens_of_match", r) THEN FallThrough
             ELSE FuzzyProduct(r.view, r.input_product, r.threshold)
      [] site = "tokens_of_match" -> FuzzyProduct(r.view, r.input_product, r.threshold)

\* The lists of codes of the generations that are complete at this moment:
\* the current one, or the one a running refresh replaces and the one it
\* builds.
CompleteArticles ==
    IF lock = "free" THEN {DictKeys(article_to_products)}
    ELSE {refreshers[lock].old_articles,
          DictKeys(BuildArticleToProducts(ValidRows(refreshers[lock].products_data)))}

\* The call after the read at the site.  start keeps what the cache held
\* at the first read of the call, which is a read under the lock.
Seen(site, r) ==
    [r EXCEPT !.view = [@ EXCEPT ![SiteField(site)] = CurrentView[SiteField(site)]],
              !.start = IF r.started THEN @ ELSE CurrentView,
              !.started = TRUE,
              !.complete = IF site = "all_articles" THEN CompleteArticles ELSE @]

\* The call returns the outcome, or goes on to the next site, or returns
\* (None, None, 0, None) after the last one.
Landed(site, r, outcome) ==
    IF outcome /= FallThrough THEN [r EXCEPT !.pc = "done", !.result = outcome]
    ELSE IF SiteIndex(site) = Len(Sites) THEN [r EXCEPT !.pc = "done", !.result = NoMatch]
    ELSE [r EXCEPT !.pc = Sites[SiteIndex(site) + 1]]
Proceed(site, r) ==
    Landed(site, r, IF Reaches(site, r) THEN Outcome(site, r) ELSE FallThrough)

\* A thread calls match_product.
ReaderCall(input_product, input_article, threshold) ==
    /\ reader.pc = "idle"
    /\ reader' = [IdleReader EXCEPT !.pc = Sites[1], !.input_product = input_product,
                                    !.input_article = input_article,
                                    !.threshold = threshold]
    /\ UNCHANGED <<cacheVars, pc, ret, lock, refreshers, log>>
    /\ UNCHANGED <<learnerVars, requestVars, trackerVars>>

\* The reader can take its next step: it is at a site, and if the site is
\* reached through a locked method, no refresh holds the lock.
CanLookup ==
    /\ reader.pc \in Range(Sites)
    /\ (Reaches(reader.pc, reader) /\ Locked(reader.pc)) => CanAcquire("reader")

\* The reader passes one site: it reads there if control reaches it.
Lookup ==
    /\ CanLookup
    /\ reader' = Proceed(reader.pc,
                         IF Reaches(reader.pc, reader) THEN Seen(reader.pc, reader)
                         ELSE reader)
    /\ UNCHANGED <<cacheVars, pc, ret, lock, refreshers, log>>
    /\ UNCHANGED <<learnerVars, requestVars, trackerVars>>

\* match_product has returned its tuple.
ReaderReturn ==
    /\ reader.pc = "done"
    /\ reader' = IdleReader
    /\ UNCHANGED <<cacheVars, pc, ret, lock, refreshers, log>>
    /\ UNCHANGED <<learnerVars, requestVars, trackerVars>>

NextConcurrent ==
    \/ \E t \in Threads, products_data \in ConcurrentCatalogs,
          db_products \in ConcurrentSynonyms :
           CallRefresh(t, products_data, db_products)
    \/ \E t \in Threads : Acquire(t)
    \/ \E t \in Threads : ClearArticles(t)
    \/ \E t \in Threads : ClearRest(t)
    \/ \E t \in Threads : AddRow(t)
    \/ \E t \in Threads : AddSynonymRows(t)
    \/ \E t \in Threads : LoadVersion(t)
    \/ \E t \in Threads : StoreVersion(t)
    \/ \E t \in Threads : Release(t)
    \/ \E input_product \in ConcurrentProducts, input_article \in ConcurrentArticles,
          threshold \in ConcurrentThresholds :
           ReaderCall(input_product, input_article, threshold)
    \/ Lookup
    \/ ReaderReturn

SpecConcurrent == Init /\ [][NextConcurrent]_vars

---------------------------------------------------------------------------
(* SynonymManager and the handlers of app_improved.py that drive it *)

\* The catalog file the application refreshes from.
LearnerCatalog == << CatalogRows[2], CatalogRows[3] >>

\* The (input_product, input_article) pairs fuzzy_match_product is called
\* with: names close to a catalog name, with and without a code close to a
\* catalog code; a stored synonym; a name that scores below 85; a close code
\* without a name.
LearnerCalls ==
    { << <<"a","b"," ","2","m","m"," ","c">>, None >>,
      << <<"a","b"," ","2","n","m"," ","d">>, None >>,
      << <<"a","b"," ","2","n","m"," ","d">>, <<"1","2","3","3">> >>,
      << <<"R","9">>, None >>,
      << <<"a","b"," ","2","n","m"," ","d","e">>, None >>,
      << None, <<"1","2","3","3">> >> }
LearnerThresholds == {80}

\* The (synonym, article) pairs posted to /api/synonyms/approve: a synonym
\* the row already stores, a new one for that row, a code without a row.
ApprovePairs ==
    { << <<"R","9">>, <<"1","2","3">> >>,
      << <<"a","b"," ","2","m","m"," ","c">>, <<"1","2","3">> >>,
      << <<"a","b"," ","2","m","m"," ","c">>, <<"9","9","9">> >> }

\* The (synonym, article) pairs posted to /api/synonyms/reject.
RejectPairs ==
    { << <<"a","b"," ","2","m","m"," ","c">>, <<"1","2","3">> >>,
      << <<"a","b"," ","2","n","m"," ","d">>, <<"1","2","3","4">> >>,
      << <<"R","9">>, <<"1","2","3">> >> }

\* What the handlers found before they ran.
LearnerState ==
    [pending_synonyms |-> pending_synonyms, usage_stats |-> usage_stats,
     products_table |-> products_table]

\* database.get_all_products: SELECT * FROM products ORDER BY product_name
RECURSIVE InsertByName(_, _)
InsertByName(row, ordered) ==
    IF ordered = <<>> THEN <<row>>
    ELSE IF StrLess(row.product_name, ordered[1].product_name) THEN <<row>> \o ordered
    ELSE <<ordered[1]>> \o InsertByName(row, Tail(ordered))
RECURSIVE OrderByName(_)
OrderByName(table) ==
    IF table = <<>> THEN <<>>
    ELSE InsertByName(table[Len(table)], OrderByName(SubSeq(table, 1, Len(table) - 1)))

\* database.get_product_by_article: the row, or None.
NoProduct == [article_number |-> None]
get_product_by_article(table, article) ==
    IF \E i \in DOMAIN table : table[i].article_number = article
    THEN table[CHOOSE i \in DOMAIN table : table[i].article_number = article]
    ELSE NoProduct

\* database.update_product(article, synonyms=...): json.dumps of the list
\* goes to the synonyms column of the rows with that article number.
update_product(table, article, synonyms) ==
    [i \in DOMAIN table |->
        IF table[i].article_number = article
        THEN [table[i] EXCEPT !.synonyms = [kind |-> "list", items |-> synonyms]]
        ELSE table[i]]

\* SynonymManager.suggest_synonym
Suggestion(original_text, matched_article, matched_product, match_score) ==
    [synonym |-> original_text, article |-> matched_article,
     product |-> matched_product, score |-> match_score,
     suggested_at |-> "now", status |-> "pending"]
\* Variant: the suggestion is stored as approved.
suggest_synonym_approved(pending, original_text, matched_article, matched_product, match_score) ==
    IF 85 <= match_score /\ match_score < 100
    THEN Append(pending, [Suggestion(original_text, matched_article, matched_product,
                                     match_score) EXCEPT !.status = "approved"])
    ELSE pending
\* Variant: a new suggestion takes the place of the pending ones.
suggest_synonym_newest_only(pending, original_text, matched_article, matched_product, match_score) ==
    IF 85 <= match_score /\ match_score < 100
    THEN << Suggestion(original_text, matched_article, matched_product, match_score) >>
    ELSE pending
suggest_synonym(pending, original_text, matched_article, matched_product, match_score) ==
    IF 85 <= match_score /\ match_score < 100
    THEN Append(pending, Suggestion(original_text, matched_article, matched_product,
                                    match_score))
    ELSE pending

\* Variant: the counter is kept under the lower-cased text.
track_usage_folded(stats, synonym) ==
    DictSet(stats, lower(synonym), DictGet(stats, lower(synonym), 0) + 1)
\* SynonymManager.track_usage: usage_stats is a defaultdict(int).
track_usage(stats, synonym) == DictSet(stats, synonym, DictGet(stats, synonym, 0) + 1)

\* The tail of fuzzy_match_product: the conditions under which it calls
\* track_usage and suggest_synonym.
TracksUsage(result, input_product) ==
    result.method = "synonym_match" /\ Truthy(input_product)
SuggestsSynonym(result, input_product) ==
    /\ Truthy(result.article)
    /\ 85 <= result.score /\ result.score < 100
    /\ Truthy(input_product)
AfterTracking(stats, result, input_product) ==
    IF TracksUsage(result, input_product) THEN track_usage(stats, input_product)
    ELSE stats
AfterSuggesting(pending, result, input_product) ==
    IF SuggestsSynonym(result, input_product)
    THEN suggest_synonym(pending, input_product, result.article, result.name, result.score)
    ELSE pending

\* fuzzy_match_product of app_improved.py once match_product has returned
\* result.
Observed(input_product, input_article, threshold, result) ==
    /\ pending_synonyms' = AfterSuggesting(pending_synonyms, result, input_product)
    /\ Len(pending_synonyms') <= MaxPending
    /\ usage_stats' = AfterTracking(usage_stats, result, input_product)
    /\ \A i \in DOMAIN usage_stats' : usage_stats'[i][2] <= MaxUsage
    /\ pc' = "returned"
    /\ ret' = [op |-> "fuzzy_match_product", input_product |-> input_product,
               input_article |-> input_article, threshold |-> threshold,
               result |-> result, before |-> LearnerState]

\* fuzzy_match_product(input_product, input_article, threshold)
FuzzyMatchProduct(input_product, input_article, threshold) ==
    /\ pc = "idle"
    /\ Observed(input_product, input_article, threshold,
                match_product(cache, input_product, input_article, threshold))
    /\ article_to_products' =
           IF Truthy(input_article) THEN AfterGet(article_to_products, input_article)
           ELSE article_to_products
    /\ product_to_articles' =
           IF Truthy(input_product) THEN AfterGet(product_to_articles, input_product)
           ELSE product_to_articles
    /\ UNCHANGED <<synonym_map, all_products, last_refresh, version, threadVars, log>>
    /\ UNCHANGED <<products_table, requestVars, trackerVars>>

\* refresh_product_cache of app_improved.py: the catalog file and
\* db.get_all_products() go to ProductCache.refresh.
RefreshProductCache(products_data) ==
    Refresh(products_data, OrderByName(products_table))

\* json.loads of the synonyms column in approve_synonym: the list stays
\* empty for an empty column and for text that is not JSON.
ExistingSynonyms(product) ==
    IF product.synonyms.kind = "list" THEN product.synonyms.items ELSE <<>>

\* Variant: the synonym is never taken as present.
NeverPresent(synonym, existing_synonyms) == FALSE
\* synonym in existing_synonyms
AlreadyPresent(synonym, existing_synonyms) ==
    \E i \in DOMAIN existing_synonyms : existing_synonyms[i] = synonym

\* Variant: the suggestions of the synonym go, whatever their article.
WithoutSynonym(pending, synonym, article) ==
    SelectSeq(pending, LAMBDA s : s.synonym /= synonym)
\* Variant: the suggestions for the article go, whatever their synonym.
WithoutArticle(pending, synonym, article) ==
    SelectSeq(pending, LAMBDA s : s.article /= article)
\* [s for s in pending_synonyms if s['synonym'] != synonym or s['article'] != article]
WithoutPair(pending, synonym, article) ==
    SelectSeq(pending, LAMBDA s : s.synonym /= synonym \/ s.article /= article)

\* approve_synonym once get_product_by_article has returned product.
Approved(synonym, article, product) ==
    /\ product /= NoProduct
    /\ ~AlreadyPresent(synonym, ExistingSynonyms(product))

\* SynonymManager.approve_synonym(synonym, article)
ApproveSynonym(synonym, article) ==
    /\ pc = "idle"
    /\ IF Approved(synonym, article, get_product_by_article(products_table, article))
       THEN /\ products_table' =
                   update_product(products_table, article,
                       Append(ExistingSynonyms(
                                  get_product_by_article(products_table, article)),
                              synonym))
            /\ pending_synonyms' = WithoutPair(pending_synonyms, synonym, article)
       ELSE UNCHANGED <<products_table, pending_synonyms>>
    /\ pc' = "returned"
    /\ ret' = [op |-> "approve_synonym", synonym |-> synonym, article |-> article,
               returned |-> Approved(synonym, article,
                                     get_product_by_article(products_table, article)),
               before |-> LearnerState]
    /\ UNCHANGED <<cacheVars, threadVars, log, usage_stats, requestVars, trackerVars>>

\* SynonymManager.reject_synonym(synonym, article)
RejectSynonym(synonym, article) ==
    /\ pc = "idle"
    /\ pending_synonyms' = WithoutPair(pending_synonyms, synonym, article)
    /\ pc' = "returned"
    /\ ret' = [op |-> "reject_synonym", synonym |-> synonym, article |-> article,
               returned |-> Len(pending_synonyms) - Len(pending_synonyms') > 0,
               before |-> LearnerState]
    /\ UNCHANGED <<cacheVars, threadVars, log, usage_stats, products_table,
                   requestVars, trackerVars>>

\* sorted(usage_stats.items(), key=lambda x: x[1], reverse=True): a stable
\* sort, items with equal counts keep the order of the dict.
RECURSIVE InsertByCount(_, _)
InsertByCount(item, ordered) ==
    IF ordered = <<>> THEN <<item>>
    ELSE IF item[2] > ordered[1][2] THEN <<item>> \o ordered
    ELSE <<ordered[1]>> \o InsertByCount(item, Tail(ordered))
RECURSIVE SortedByCount(_)
SortedByCount(items) ==
    IF items = <<>> THEN <<>>
    ELSE InsertByCount(items[Len(items)], SortedByCount(SubSeq(items, 1, Len(items) - 1)))
\* sum(usage_stats.values())
RECURSIVE SumValues(_)
SumValues(items) == IF items = <<>> THEN 0 ELSE items[1][2] + SumValues(Tail(items))

\* Variant: the items in the order of the dict.
get_usage_statistics_unsorted(stats) ==
    [total_synonyms |-> Len(stats),
     top_used |-> SubSeq(stats, 1, Min(20, Len(stats))),
     total_usage |-> SumValues(stats)]
\* SynonymManager.get_usage_statistics
get_usage_statistics(stats) ==
    [total_synonyms |-> Len(stats),
     top_used |-> SubSeq(SortedByCount(stats), 1, Min(20, Len(stats))),
     total_usage |-> SumValues(stats)]

\* The /api/synonyms/statistics route.
GetUsageStatistics ==
    /\ pc = "idle"
    /\ pc' = "returned"
    /\ ret' = [op |-> "get_usage_statistics",
               returned |-> get_usage_statistics(usage_stats), before |-> LearnerState]
    /\ UNCHANGED <<cacheVars, threadVars, log, learnerVars, requestVars, trackerVars>>

NextLearner ==
    \/ RefreshProductCache(LearnerCatalog)
    \/ GetUsageStatistics
    \/ \E call \in LearnerCalls, threshold \in LearnerThresholds :
           FuzzyMatchProduct(call[1], call[2], threshold)
    \/ \E pair \in ApprovePairs : ApproveSynonym(pair[1], pair[2])
    \/ \E pair \in RejectPairs : RejectSynonym(pair[1], pair[2])
    \/ Return

SpecLearner == Init /\ [][NextLearner]_vars

---------------------------------------------------------------------------
(* The synonym routes and fuzzy_match_product served by two threads *)

\* The requests that arrive together: (handler, text, article).
Requests ==
    { <<"fuzzy_match_product", <<"R","9">>, None>>,
      <<"fuzzy_match_product", <<"a","b"," ","2","n","m"," ","d">>, None>>,
      <<"reject_synonym", <<"a","b"," ","2","m","m"," ","c">>, <<"1","2","3">> >>,
      <<"approve_synonym", <<"a","b"," ","2","m","m"," ","c">>, <<"1","2","3">> >>,
      <<"approve_synonym", <<"a","b"," ","2","n","m"," ","d">>, <<"1","2","3">> >> }
RequestThreshold == 80

\* The calls made, one at a time, before the requests arrive.
EarlierCalls == { << <<"a","b"," ","2","m","m"," ","c">>, None >> }

\* Where a request starts.
FirstStep(op) ==
    CASE op = "fuzzy_match_product" -> "match"
      [] op = "approve_synonym" -> "get_product"
      [] op = "reject_synonym" -> "filter"

\* One request per thread arrives while no other is being served.
Arrive(request) ==
    /\ pc = "idle"
    /\ at_start = <<>>
    /\ \A t \in Threads : handlers[t].pc = "idle"
    /\ handlers' = [t \in Threads |->
                       [IdleHandler EXCEPT !.pc = FirstStep(request[t][1]),
                                           !.op = request[t][1],
                                           !.text = request[t][2],
                                           !.article = request[t][3]]]
    /\ at_start' = <<LearnerState>>
    /\ UNCHANGED <<cacheVars, pc, ret, threadVars, log, learnerVars, trackerVars>>

\* A handler of the application called while no request has arrived.
BeforeRequests ==
    /\ at_start = <<>>
    /\ \/ RefreshProductCache(LearnerCatalog)
       \/ \E call \in EarlierCalls : FuzzyMatchProduct(call[1], call[2], RequestThreshold)
       \/ Return

\* What follows match_product and track_usage in fuzzy_match_product.
AfterUsage(result, input_product) ==
    IF SuggestsSynonym(result, input_product) THEN "suggest" ELSE "done"

\* fuzzy_match_product: match_product has returned.
Matched(t, result) ==
    /\ handlers' = [handlers EXCEPT ![t].result = result,
                                    ![t].pc = IF TracksUsage(result, handlers[t].text)
                                              THEN "read_usage"
                                              ELSE AfterUsage(result, handlers[t].text)]
    /\ UNCHANGED <<cacheVars, pc, ret, threadVars, log, learnerVars, at_start, trackerVars>>
Match(t) ==
    /\ handlers[t].pc = "match"
    /\ Matched(t, match_product(cache, handlers[t].text, handlers[t].article,
                                RequestThreshold))

\* track_usage, usage_stats[synonym] += 1: the counter is read; the
\* defaultdict stores 0 under a key it does not hold.
ReadUsage(t) ==
    /\ handlers[t].pc = "read_usage"
    /\ usage_stats' = DictSet(usage_stats, handlers[t].text,
                              DictGet(usage_stats, handlers[t].text, 0))
    /\ handlers' = [handlers EXCEPT ![t].count = DictGet(usage_stats, handlers[t].text, 0),
                                    ![t].pc = "store_usage"]
    /\ UNCHANGED <<cacheVars, pc, ret, threadVars, log, pending_synonyms, products_table,
                   at_start, trackerVars>>

\* track_usage, usage_stats[synonym] += 1: the sum is stored.
StoreUsage(t) ==
    /\ handlers[t].pc = "store_usage"
    /\ usage_stats' = DictSet(usage_stats, handlers[t].text, handlers[t].count + 1)
    /\ handlers' = [handlers EXCEPT ![t].pc = AfterUsage(handlers[t].result, handlers[t].text)]
    /\ UNCHANGED <<cacheVars, pc, ret, threadVars, log, pending_synonyms, products_table,
                   at_start, trackerVars>>

\* suggest_synonym: pending_synonyms.append(suggestion)
Suggest(t) ==
    /\ handlers[t].pc = "suggest"
    /\ pending_synonyms' =
           suggest_synonym(pending_synonyms, handlers[t].text, handlers[t].result.article,
                           handlers[t].result.name, handlers[t].result.score)
    /\ handlers' = [handlers EXCEPT ![t].pc = "done"]
    /\ UNCHANGED <<cacheVars, pc, ret, threadVars, log, usage_stats, products_table,
                   at_start, trackerVars>>

\* approve_synonym: db.get_product_by_article(article) and the tests that
\* return False.
GetProduct(t) ==
    /\ handlers[t].pc = "get_product"
    /\ handlers' =
           [handlers EXCEPT
               ![t].product = get_product_by_article(products_table, handlers[t].article),
               ![t].pc = IF Approved(handlers[t].text, handlers[t].article,
                                     get_product_by_article(products_table,
                                                            handlers[t].article))
                         THEN "update" ELSE "done"]
    /\ UNCHANGED <<cacheVars, pc, ret, threadVars, log, learnerVars, at_start, trackerVars>>

\* approve_synonym: existing_synonyms.append(synonym); db.update_product
UpdateProduct(t) ==
    /\ handlers[t].pc = "update"
    /\ products_table' =
           update_product(products_table, handlers[t].article,
                          Append(ExistingSynonyms(handlers[t].product), handlers[t].text))
    /\ handlers' = [handlers EXCEPT ![t].pc = "filter"]
    /\ UNCHANGED <<cacheVars, pc, ret, threadVars, log, pending_synonyms, usage_stats,
                   at_start, trackerVars>>

\* approve_synonym, reject_synonym: the list comprehension over
\* pending_synonyms has built its list.
FilterPending(t) ==
    /\ handlers[t].pc = "filter"
    /\ handlers' =
           [handlers EXCEPT
               ![t].original_count = Len(pending_synonyms),
               ![t].filtered = WithoutPair(pending_synonyms, handlers[t].text,
                                           handlers[t].article),
               ![t].pc = "assign"]
    /\ UNCHANGED <<cacheVars, pc, ret, threadVars, log, learnerVars, at_start, trackerVars>>

\* approve_synonym, reject_synonym: self.pending_synonyms = [...], return.
AssignPending(t) ==
    /\ handlers[t].pc = "assign"
    /\ pending_synonyms' = handlers[t].filtered
    /\ handlers' =
           [handlers EXCEPT
               ![t].returned = IF handlers[t].op = "approve_synonym" THEN TRUE
                               ELSE handlers[t].original_count
                                        - Len(handlers[t].filtered) > 0,
               ![t].pc = "done"]
    /\ UNCHANGED <<cacheVars, pc, ret, threadVars, log, usage_stats, products_table,
                   at_start, trackerVars>>

NextRequests ==
    \/ BeforeRequests
    \/ \E request \in [Threads -> Requests] : Arrive(request)
    \/ \E t \in Threads :
           \/ Match(t)
           \/ ReadUsage(t)
           \/ StoreUsage(t)
           \/ Suggest(t)
           \/ GetProduct(t)
           \/ UpdateProduct(t)
           \/ FilterPending(t)
           \/ AssignPending(t)

SpecRequests == Init /\ [][NextRequests]_vars

---------------------------------------------------------------------------
(* process_order of app_improved.py, one order line at a time *)

\* The catalogs orders are processed against: two codes with a name each,
\* one code with two names, one name with two codes.
OrderCatalogs ==
    { LearnerCatalog,
      << CatalogRows[2], CatalogRows[4] >>,
      << CatalogRows[4], CatalogRows[6] >> }

\* The order lines: (product_name, article_number).
OrderLines ==
    { << CatalogRows[2].name, <<"1","2","3">> >>,
      << CatalogRows[4].name, None >>,
      << <<"a","b"," ","2","m","m"," ","c">>, None >>,
      << <<"R","9">>, None >>,
      << <<"z","z">>, None >>,
      << None, <<"1","2","3">> >> }
\* The quantities, each as the sequence of what float(quantity) gives: one
\* number, or nothing when float() raises ValueError or TypeError.
OrderQuantities == {<<>>, <<2>>, <<5>>}
OrderThreshold == 80

\* QuantityValidator.validate on whole numbers and on text that is no
\* number: (is_valid, cleaned_quantity, warnings).
validate_quantity(quantity) ==
    IF quantity = <<>> THEN <<FALSE, 0, <<"Invalid quantity format">> >>
    ELSE IF quantity[1] < 0 THEN <<FALSE, 0, <<"Negative quantity is not allowed">> >>
    ELSE IF quantity[1] = 0 THEN <<FALSE, 0, <<"Quantity cannot be zero (after rounding)">> >>
    ELSE <<TRUE, quantity[1],
           (IF quantity[1] > 100 THEN <<"high_quantity">> ELSE <<>>)
               \o (IF quantity[1] <= 2 THEN <<"low_quantity">> ELSE <<>>)>>

\* The values of the enum MatchMethod of parsing_engine.py.
MatchMethodValues ==
    {"exact_article", "exact_product", "fuzzy_article", "fuzzy_product", "synonym_match",
     "token_enhanced"}
\* MatchMethod(match_method) if match_method else None: the exception the
\* conversion raises, "None" when it raises none.
RaisedByMatchMethod(match_method) ==
    IF match_method /= "None" /\ match_method \notin MatchMethodValues
    THEN "ValueError" ELSE "None"

\* The reason process_order gives add_unmatched for a line without a match.
UnmatchedReasonOf(result) ==
    IF result.score = 0 THEN "no_match_found" ELSE "low_match_score"

\* process_order for a line whose quantity is invalid: the line is tracked
\* as unmatched and the loop continues.
OrderRefused(product_name, article_number, quantity) ==
    /\ pc' = "returned"
    /\ ret' = [op |-> "process_order", input_product |-> product_name,
               input_article |-> article_number, threshold |-> OrderThreshold,
               quantity |-> quantity, result |-> NoMatch, status |-> "invalid_quantity",
               unmatched |-> <<"invalid_quantity">>, warnings |-> <<>>,
               raised |-> "None", before |-> LearnerState]
    /\ UNCHANGED <<cacheVars, learnerVars>>

\* process_order for a line whose quantity is valid, once
\* fuzzy_match_product has returned result: the rows of the products table
\* are available and not discontinued, so the warnings are those of the
\* quantity.
OrderMatched(product_name, article_number, quantity, result) ==
    /\ pending_synonyms' = AfterSuggesting(pending_synonyms, result, product_name)
    /\ Len(pending_synonyms') <= MaxPending
    /\ usage_stats' = AfterTracking(usage_stats, result, product_name)
    /\ \A i \in DOMAIN usage_stats' : usage_stats'[i][2] <= MaxUsage
    /\ pc' = "returned"
    /\ ret' = [op |-> "process_order", input_product |-> product_name,
               input_article |-> article_number, threshold |-> OrderThreshold,
               quantity |-> quantity, result |-> result,
               status |-> IF Truthy(result.article) THEN "matched" ELSE "unmatched",
               unmatched |-> IF Truthy(result.article) THEN <<>>
                             ELSE <<UnmatchedReasonOf(result)>>,
               warnings |-> IF Truthy(result.article) THEN validate_quantity(quantity)[3]
                            ELSE <<>>,
               raised |-> RaisedByMatchMethod(result.method),
               before |-> LearnerState]
    /\ article_to_products' =
           IF Truthy(article_number) THEN AfterGet(article_to_products, article_number)
           ELSE article_to_products
    /\ product_to_articles' =
           IF Truthy(product_name) THEN AfterGet(product_to_articles, product_name)
           ELSE product_to_articles
    /\ UNCHANGED <<synonym_map, all_products, last_refresh, version, products_table>>

\* process_order([order]): one order line, up to the return or to the
\* exception that leaves the function.
ProcessOrder(product_name, article_number, quantity) ==
    /\ pc = "idle"
    /\ IF validate_quantity(quantity)[1]
       THEN OrderMatched(product_name, article_number, quantity,
                         match_product(cache, product_name, article_number, OrderThreshold))
       ELSE OrderRefused(product_name, article_number, quantity)
    /\ UNCHANGED <<threadVars, log, requestVars, trackerVars>>

NextOrders ==
    \/ \E products_data \in OrderCatalogs : Refresh(products_data, SubSeq(DbRows, 1, 1))
    \/ \E line \in OrderLines, quantity \in OrderQuantities :
           ProcessOrder(line[1], line[2], quantity)
    \/ Return

SpecOrders == Init /\ [][NextOrders]_vars

---------------------------------------------------------------------------
(* The /api/synonyms/approve route: approve_synonym, then the refresh *)

\* (synonym, article) pairs posted to the route: one text approved for each
\* of the two rows, the name of row 1234 approved for row 123, and a text
\* row 123 stores already.
RoutePairs ==
    { << <<"a","b"," ","2","m","m"," ","c">>, <<"1","2","3">> >>,
      << <<"a","b"," ","2","m","m"," ","c">>, <<"1","2","3","4">> >>,
      << CatalogRows[3].name, <<"1","2","3">> >>,
      << <<"R","9">>, <<"1","2","3">> >> }
RouteCalls ==
    { << <<"a","b"," ","2","m","m"," ","c">>, None >>,
      << CatalogRows[3].name, None >>,
      << <<"R","9">>, None >> }

\* refresh_product_cache() inside a handler that goes on afterwards: the
\* CSV rows products_data and the rows get_all_products returns for table.
Refreshed(products_data, table) ==
    /\ article_to_products' = BuildArticleToProducts(ValidRows(products_data))
    /\ product_to_articles' = BuildProductToArticles(ValidRows(products_data))
    /\ all_products' = BuildAllProducts(ValidRows(products_data))
    /\ synonym_map' = BuildSynonymMap(OrderByName(table))
    /\ last_refresh' = "now"
    /\ version' = version + 1
    /\ log' = Append(log, version + 1)

\* The route once get_product_by_article has returned product.
ApproveRouted(products_data, synonym, article, product) ==
    /\ IF Approved(synonym, article, product)
       THEN /\ version < MaxVersion
            /\ products_table' =
                   update_product(products_table, article,
                                  Append(ExistingSynonyms(product), synonym))
            /\ pending_synonyms' = WithoutPair(pending_synonyms, synonym, article)
            /\ Refreshed(products_data,
                         update_product(products_table, article,
                                        Append(ExistingSynonyms(product), synonym)))
       ELSE UNCHANGED <<products_table, pending_synonyms, cacheVars, log>>
    /\ pc' = "returned"
    /\ ret' = [op |-> "approve_synonym_route", synonym |-> synonym, article |-> article,
               returned |-> Approved(synonym, article, product), before |-> LearnerState]

\* approve_synonym() of app_improved.py with the body {synonym, article}
ApproveSynonymRoute(products_data, synonym, article) ==
    /\ pc = "idle"
    /\ ApproveRouted(products_data, synonym, article,
                     get_product_by_article(products_table, article))
    /\ UNCHANGED <<threadVars, usage_stats, requestVars, trackerVars>>

NextRoute ==
    \/ RefreshProductCache(LearnerCatalog)
    \/ \E pair \in RoutePairs : ApproveSynonymRoute(LearnerCatalog, pair[1], pair[2])
    \/ \E call \in RouteCalls : FuzzyMatchProduct(call[1], call[2], RequestThreshold)
    \/ Return

SpecRoute == Init /\ [][NextRoute]_vars

---------------------------------------------------------------------------
(* ProductCache.refresh leaving by an exception *)

\* A row of the products table whose synonyms column holds the JSON text of
\* a number: json.loads returns an int and the for loop over it raises
\* TypeError, which refresh does not catch.
NumberRow == DbRow(<<"9","9">>, <<"z","z">>, [kind |-> "number"])
Raises(db_product) == db_product.synonyms.kind = "number"
\* The rows the second loop has been through when the exception leaves it.
BeforeRaising(db_products) ==
    SubSeq(db_products, 1,
           (CHOOSE i \in DOMAIN db_products :
                /\ Raises(db_products[i])
                /\ \A j \in 1..(i - 1) : ~Raises(db_products[j])) - 1)

RaisingSnapshots ==
    { Append(db_products, NumberRow) : db_products \in SynonymSnapshots }
    \cup { <<NumberRow>> \o db_products : db_products \in SynonymSnapshots }
RaisingCalls ==
    { << CatalogRows[2].name, None >>, << <<"R","9">>, None >>,
      << None, <<"1","2","3">> >> }

\* ProductCache.refresh(products_data, db_products) when a row of db_products
\* raises: the dicts were cleared and refilled up to that row, the last two
\* assignments and the log line are not reached.
RefreshRaising(products_data, db_products) ==
    /\ pc = "idle"
    /\ \E i \in DOMAIN db_products : Raises(db_products[i])
    /\ article_to_products' = BuildArticleToProducts(ValidRows(products_data))
    /\ product_to_articles' = BuildProductToArticles(ValidRows(products_data))
    /\ all_products' = BuildAllProducts(ValidRows(products_data))
    /\ synonym_map' = BuildSynonymMap(BeforeRaising(db_products))
    /\ pc' = "raised"
    /\ ret' = [op |-> "refresh", raised |-> "TypeError", before |-> cache,
               version |-> version]
    /\ UNCHANGED <<last_refresh, version, log, threadVars>>
    /\ UNCHANGED <<learnerVars, requestVars, trackerVars>>

\* refresh_product_cache: except Exception, log and raise; the caller is
\* back outside the call.
Reraise ==
    /\ pc = "raised"
    /\ pc' = "idle"
    /\ ret' = NoCall
    /\ UNCHANGED <<cacheVars, threadVars, log>>
    /\ UNCHANGED <<learnerVars, requestVars, trackerVars>>

NextRaising ==
    \/ \E products_data \in Prefixes(CatalogRows, MaxRows),
          db_products \in SynonymSnapshots :
           Refresh(products_data, db_products)
    \/ \E products_data \in Prefixes(CatalogRows, MaxRows),
          db_products \in RaisingSnapshots :
           RefreshRaising(products_data, db_products)
    \/ \E call \in RaisingCalls : MatchProduct(call[1], call[2], RequestThreshold)
    \/ Return
    \/ Reraise

SpecRaising == Init /\ [][NextRaising]_vars

---------------------------------------------------------------------------
(* UnmatchedTracker of unmatched_tracker.py *)

\* The reasons and the texts given to add_unmatched.
TrackedReasons == {"no_match_found", "low_match_score", "invalid_quantity"}
TrackedTexts == { <<"z","z">> }

\* UnmatchedItem(original_text, reason, details, suggestions)
UnmatchedItem(original_text, reason) ==
    [original_text |-> original_text, reason |-> reason]

\* Variant: the list of the reason is assigned, not appended to.
ByReasonAssigned(by_reason, item) == DictSet(by_reason, item.reason, <<item>>)
\* self.items_by_reason[reason].append(item)
ByReasonAppended(by_reason, item) == DictAppend(by_reason, item.reason, item)

\* self.items_by_reason[reason] on the defaultdict(list)
IndexedByReason(by_reason, reason) ==
    IF DictHas(by_reason, reason) THEN by_reason ELSE Append(by_reason, <<reason, <<>>>>)

\* UnmatchedTracker.get_summary
get_summary(unmatched, by_reason, warnings) ==
    [total_unmatched |-> Len(unmatched),
     total_warnings |-> Len(warnings),
     by_reason |->
         [i \in DOMAIN by_reason |->
             <<by_reason[i][1],
               [count |-> Len(by_reason[i][2]), items |-> by_reason[i][2]]>>]]

Summary == get_summary(unmatched_items, items_by_reason, warning_items)

\* UnmatchedTracker.add_unmatched(original_text, reason, details, suggestions)
AddUnmatched(original_text, reason) ==
    /\ pc = "idle"
    /\ Len(unmatched_items) < MaxTracked
    /\ unmatched_items' = Append(unmatched_items, UnmatchedItem(original_text, reason))
    /\ items_by_reason' =
           ByReasonAppended(items_by_reason, UnmatchedItem(original_text, reason))
    /\ pc' = "returned"
    /\ ret' = [op |-> "add_unmatched", reason |-> reason, before |-> Summary]
    /\ UNCHANGED <<warning_items, cacheVars, threadVars, log, learnerVars, requestVars>>

\* UnmatchedTracker.add_warning(matched_item, warnings)
AddWarning(matched_item, warnings) ==
    /\ pc = "idle"
    /\ Len(warning_items) < MaxTracked
    /\ warning_items' =
           Append(warning_items, [matched_item |-> matched_item, warnings |-> warnings])
    /\ pc' = "returned"
    /\ ret' = [op |-> "add_warning", reason |-> "None", before |-> Summary]
    /\ UNCHANGED <<unmatched_items, items_by_reason, cacheVars, threadVars, log,
                   learnerVars, requestVars>>

\* UnmatchedTracker.get_unmatched_by_reason(reason): indexing the
\* defaultdict stores an empty list under a reason it does not hold.
GetUnmatchedByReason(reason) ==
    /\ pc = "idle"
    /\ items_by_reason' = IndexedByReason(items_by_reason, reason)
    /\ pc' = "returned"
    /\ ret' = [op |-> "get_unmatched_by_reason", reason |-> reason, before |-> Summary]
    /\ UNCHANGED <<unmatched_items, warning_items, cacheVars, threadVars, log,
                   learnerVars, requestVars>>

\* UnmatchedTracker.get_summary()
GetSummary ==
    /\ pc = "idle"
    /\ pc' = "returned"
    /\ ret' = [op |-> "get_summary", reason |-> "None", before |-> Summary]
    /\ UNCHANGED <<trackerVars, cacheVars, threadVars, log, learnerVars, requestVars>>

NextTracker ==
    \/ \E original_text \in TrackedTexts, reason \in TrackedReasons :
           AddUnmatched(original_text, reason)
    \/ AddWarning(<<"z","z">>, <<"low_quantity">>)
    \/ \E reason \in TrackedReasons : GetUnmatchedByReason(reason)
    \/ GetSummary
    \/ Return

SpecTracker == Init /\ [][NextTracker]_vars

---------------------------------------------------------------------------
(* ColumnDetector of parsing_engine.py *)

STRONG_PRODUCT_KEYWORDS ==
    << <<"p","r","o","d","u","c","t">>,
       <<"i","t","e","m">>,
       <<"n","a","m","e">>,
       <<"a","r","t","i","k","e","l">>,
       <<"p","r","o","d","u","k","t">> >>
STRONG_ARTICLE_KEYWORDS ==
    << <<"a","r","t","i","c","l","e">>,
       <<"s","k","u">>,
       <<"c","o","d","e">>,
       <<"a","r","t","i","k","e","l","n","u","m","m","e","r">>,
       <<"a","r","t","i","k","e","l","n","r">> >>
STRONG_QUANTITY_KEYWORDS ==
    << <<"q","u","a","n","t","i","t","y">>,
       <<"q","t","y">>,
       <<"a","m","o","u","n","t">>,
       <<"m","e","n","g","e">>,
       <<"a","n","z","a","h","l">> >>
WEAK_PRODUCT_KEYWORDS ==
    << <<"d","e","s","c","r","i","p","t","i","o","n">>,
       <<"d","e","s","c">>,
       <<"t","i","t","l","e">> >>
WEAK_ARTICLE_KEYWORDS ==
    << <<"i","d">>,
       <<"n","u","m","b","e","r">>,
       <<"n","r">>,
       <<"n","o">> >>
WEAK_QUANTITY_KEYWORDS ==
    << <<"c","o","u","n","t">>,
       <<"n","u","m">>,
       <<"p","i","e","c","e","s">> >>

\* The column names of the sheets.
Headers ==
    { <<"P","r","o","d","u","c","t"," ","D","e","s","c","r","i","p","t","i","o","n">>,
      <<"P","r","o","d","u","c","t">>,
      <<"I","t","e","m"," ","C","o","u","n","t">>,
      <<"Q","u","a","n","t","i","t","y">>,
      <<"A","r","t","i","k","e","l">>,
      <<"D","e","s","c","r","i","p","t","i","o","n">>,
      <<"C","o","u","n","t">>,
      <<"I","D">> }
\* The lists of up to MaxColumns different column names.
ColumnLists ==
    { columns \in UNION { [1..n -> Headers] : n \in 1..MaxColumns } :
          \A i, j \in DOMAIN columns : i /= j => columns[i] /= columns[j] }

\* any(keyword in col_lower for keyword in keywords)
HasKeyword(col_lower, keywords) ==
    \E k \in DOMAIN keywords : Contains(col_lower, keywords[k])

\* One role and one column, the weak keywords: found is (result, match_strength).
WeakChecked(found, col, col_lower, weak) ==
    IF found[2] < 2 /\ HasKeyword(col_lower, weak) /\ found[2] < 1
    THEN <<col, 1>> ELSE found
\* One role and one column, the strong keywords: the first keyword the
\* column holds ends the loop, and assigns when the strength is below 2.
StrongChecked(found, col, col_lower, strong) ==
    IF HasKeyword(col_lower, strong) /\ found[2] < 2 THEN <<col, 2>> ELSE found
\* The body of the loop over the columns, for one role.
ColumnChecked(found, col, strong, weak) ==
    WeakChecked(StrongChecked(found, col, strip(lower(col)), strong),
                col, strip(lower(col)), weak)
\* The loop over the columns, for one role.
RECURSIVE DetectRole(_, _, _)
DetectRole(columns, strong, weak) ==
    IF columns = <<>> THEN <<None, 0>>
    ELSE ColumnChecked(DetectRole(SubSeq(columns, 1, Len(columns) - 1), strong, weak),
                       columns[Len(columns)], strong, weak)

\* ColumnDetector.detect_columns(columns)
detect_columns(columns) ==
    [product_col |->
         DetectRole(columns, STRONG_PRODUCT_KEYWORDS, WEAK_PRODUCT_KEYWORDS)[1],
     article_col |->
         DetectRole(columns, STRONG_ARTICLE_KEYWORDS, WEAK_ARTICLE_KEYWORDS)[1],
     quantity_col |->
         DetectRole(columns, STRONG_QUANTITY_KEYWORDS, WEAK_QUANTITY_KEYWORDS)[1]]

DetectColumns(columns) ==
    /\ pc = "idle"
    /\ pc' = "returned"
    /\ ret' = [op |-> "detect_columns", columns |-> columns,
               returned |-> detect_columns(columns)]
    /\ UNCHANGED <<cacheVars, threadVars, log, learnerVars, requestVars, trackerVars>>

NextColumns ==
    \/ \E columns \in ColumnLists : DetectColumns(columns)
    \/ Return

SpecColumns == Init /\ [][NextColumns]_vars

---------------------------------------------------------------------------
(* Properties of match_product.  They are stated over the call that has   *)
(* just returned (pc = "returned"): ret holds its arguments and its       *)
(* result, and the cache is the one the call read.                        *)

Returned == pc = "returned"
NameGiven == Truthy(ret.input_product)
CodeGiven == Truthy(ret.input_article)

\* byCode(code) and byName(name) for the call's arguments.
ByCode == get_products_by_article(cache, ret.input_article)
ByName == get_articles_by_product(cache, ret.input_product)
\* allCodes, and the ratio of the call's code against each of them.
AllCodes == DictKeys(article_to_products)
CodeRatios ==
    [i \in DOMAIN AllCodes |-> ScoreByRatio(ret.input_article, AllCodes[i])]
\* tokenSortRatio of the call's name against the name of each entry.
NameScores ==
    [i \in DOMAIN all_products |->
        ScoreByTokenSort(ret.input_product, all_products[i].name)]

\* The candidate condition of each strategy.
ExactCodeCandidate == CodeGiven /\ ByCode /= <<>>
ExactNameCandidate == NameGiven /\ ByName /= <<>>
SynonymCandidate ==
    NameGiven /\ \E i \in DOMAIN synonym_map :
                     synonym_map[i][1] = lower(ret.input_product)
FuzzyCodeCandidate == CodeGiven /\ \E i \in DOMAIN AllCodes : CodeRatios[i] >= 85
FuzzyNameCandidate ==
    NameGiven /\ \E i \in DOMAIN all_products : NameScores[i] >= ret.threshold

ExactCodeTags ==
    {"exact_article", "exact_article_disambiguated", "exact_article_first"}
ExactNameTags ==
    {"exact_product", "exact_product_token_disambiguated", "exact_product_first"}

\* C1: the returned method belongs to the first strategy, in the order exact
\* code, exact name, synonym, fuzzy code, fuzzy name, whose candidate
\* condition holds; it is None when no condition holds.
StrategyOrder ==
    Returned =>
        ret.result.method \in
            IF ExactCodeCandidate THEN ExactCodeTags
            ELSE IF ExactNameCandidate THEN ExactNameTags
            ELSE IF SynonymCandidate THEN {"synonym_match"}
            ELSE IF FuzzyCodeCandidate THEN {"fuzzy_article"}
            ELSE IF FuzzyNameCandidate THEN {"fuzzy_product_token_enhanced"}
            ELSE {"None"}

\* C1: a name that is a synonym was given together with a code that only
\* fuzzily matches a catalog code, and the synonym won.
SynonymBeatsFuzzyCode ==
    /\ Returned
    /\ ~ExactCodeCandidate /\ ~ExactNameCandidate
    /\ SynonymCandidate /\ FuzzyCodeCandidate
    /\ ret.result.method = "synonym_match"

\* C2: a given code with exactly one entry returns that entry with score
\* 100 and method exact_article, whatever name was supplied.
SingleEntryExactCode ==
    (Returned /\ CodeGiven /\ Len(ByCode) = 1) =>
        ret.result = Result(ret.input_article, ByCode[1].name, 100, "exact_article")

\* C2: the code has one entry and the supplied name is exactly the name of
\* another code only.
SingleEntryDespiteOtherName ==
    /\ Returned /\ CodeGiven /\ Len(ByCode) = 1
    /\ ExactNameCandidate
    /\ \A i \in DOMAIN ByName : ByName[i] /= ret.input_article
    /\ ret.result.method = "exact_article"

\* The rows of a synonym snapshot that store a synonym equal to the text up
\* to letter case.
StoresSynonym(db_product, text) ==
    /\ db_product.synonyms.kind = "list"
    /\ \E k \in DOMAIN db_product.synonyms.items :
           lower(db_product.synonyms.items[k]) = lower(text)
Holders(db_products, text) ==
    {i \in DOMAIN db_products : StoresSynonym(db_products[i], text)}
LastHolder(db_products, text) ==
    CHOOSE i \in Holders(db_products, text) :
        \A j \in Holders(db_products, text) : j <= i
\* The synonym snapshots the cache can have been built from.
BuiltFrom == {db_products \in SynonymSnapshots : BuildSynonymMap(db_products) = synonym_map}
NoExactCandidate == ~ExactCodeCandidate /\ ~ExactNameCandidate

\* C3: with no exact code or exact name candidate, a name equal up to case
\* to a stored synonym returns score 100, method synonym_match and the code
\* and name of the last snapshot row that stores such a synonym; a name that
\* equals no stored synonym up to case never returns synonym_match.
SynonymLastRowWins ==
    (Returned /\ NameGiven /\ NoExactCandidate) =>
        \A db_products \in BuiltFrom :
            IF Holders(db_products, ret.input_product) /= {}
            THEN ret.result =
                     Result(db_products[LastHolder(db_products, ret.input_product)].article_number,
                            db_products[LastHolder(db_products, ret.input_product)].product_name,
                            100, "synonym_match")
            ELSE ret.result.method /= "synonym_match"

\* C3: two rows store the synonym in different case, the name given differs
\* from the last row's spelling in case, and the last row's code came back.
SynonymOfTwoRows ==
    /\ Returned /\ NameGiven /\ NoExactCandidate
    /\ ret.result.method = "synonym_match"
    /\ \E db_products \in BuiltFrom :
           /\ Cardinality(Holders(db_products, ret.input_product)) > 1
           /\ \A k \in DOMAIN db_products[LastHolder(db_products, ret.input_product)].synonyms.items :
                  db_products[LastHolder(db_products, ret.input_product)].synonyms.items[k]
                      /= ret.input_product
           /\ ret.result.article =
                  db_products[LastHolder(db_products, ret.input_product)].article_number

\* C3 as stated: every row that stores a synonym equal to the name up to
\* case has its code returned.
SynonymEveryRowWins ==
    (Returned /\ NameGiven /\ NoExactCandidate) =>
        \A db_products \in BuiltFrom :
            /\ \A i \in Holders(db_products, ret.input_product) :
                   ret.result = Result(db_products[i].article_number,
                                       db_products[i].product_name, 100, "synonym_match")
            /\ Holders(db_products, ret.input_product) = {} =>
                   ret.result.method /= "synonym_match"

\* x >= y for fractions with positive denominators.
FracAtLeast(x, y) == ~FracGreater(y, x)
\* The token-set similarity between the call's name and a code: the highest
\* over the names stored under the code.
CodeSimilarities(article) ==
    {token_similarity(extract_tokens(ret.input_product),
                      extract_tokens(get_products_by_article(cache, article)[k].name)) :
        k \in DOMAIN get_products_by_article(cache, article)}
CodeSimilarity(article) ==
    CHOOSE x \in CodeSimilarities(article) :
        \A y \in CodeSimilarities(article) : FracAtLeast(x, y)

\* C4: a name held by several codes, with no exact code candidate, returns
\* score 100 and the code of highest token similarity with method
\* exact_product_token_disambiguated when that similarity exceeds 0.5, and
\* otherwise the first code with method exact_product.
ExactNameDisambiguation ==
    (Returned /\ ~ExactCodeCandidate /\ NameGiven /\ Len(ByName) > 1) =>
        IF \E i \in DOMAIN ByName : FracGreater(CodeSimilarity(ByName[i]), <<1, 2>>)
        THEN \E i \in DOMAIN ByName :
                 /\ \A j \in DOMAIN ByName :
                        FracAtLeast(CodeSimilarity(ByName[i]), CodeSimilarity(ByName[j]))
                 /\ ret.result = Result(ByName[i], ret.input_product, 100,
                                        "exact_product_token_disambiguated")
        ELSE ret.result = Result(ByName[1], ret.input_product, 100, "exact_product")

\* The entries of the call's code that score highest against the call's
\* name, the first of them in catalog order.
CodeNameScores ==
    [i \in DOMAIN ByCode |-> ScoreByTokenSort(ret.input_product, ByCode[i].name)]
BestByName(i) ==
    /\ \A j \in DOMAIN ByCode : CodeNameScores[j] <= CodeNameScores[i]
    /\ \A j \in 1..(i - 1) : CodeNameScores[j] < CodeNameScores[i]

\* C5: a given code with several entries and a given name returns the entry
\* whose name has the highest tokenSortRatio against the name, the first on
\* ties, with score 100, method exact_article_disambiguated and the input
\* code.
ExactCodeDisambiguation ==
    (Returned /\ CodeGiven /\ Len(ByCode) > 1 /\ NameGiven) =>
        \E i \in DOMAIN ByCode :
            /\ BestByName(i)
            /\ ret.result = Result(ret.input_article, ByCode[i].name, 100,
                                   "exact_article_disambiguated")

\* C5: the best entry of the code is not its first one.
LaterEntryChosen ==
    /\ Returned /\ CodeGiven /\ Len(ByCode) > 1 /\ NameGiven
    /\ ~BestByName(1)
    /\ ret.result.method = "exact_article_disambiguated"
    /\ ret.result.name /= ByCode[1].name

\* C6: a given code with several entries and no name returns the first
\* entry with score 100 and method exact_article.
FirstEntryExactCode ==
    (Returned /\ CodeGiven /\ Len(ByCode) > 1 /\ ~NameGiven) =>
        ret.result = Result(ret.input_article, ByCode[1].name, 100, "exact_article")

\* C7: a given name held by exactly one code, with no exact code candidate,
\* returns that code with the input name, score 100 and method
\* exact_product.
SingleCodeExactName ==
    (Returned /\ ~ExactCodeCandidate /\ NameGiven /\ Len(ByName) = 1) =>
        ret.result = Result(ByName[1], ret.input_product, 100, "exact_product")

\* C7: the name has one code and the call also gave a code, one that the
\* catalog does not hold.
SingleCodeDespiteUnknownCode ==
    /\ Returned /\ CodeGiven /\ ~ExactCodeCandidate
    /\ NameGiven /\ Len(ByName) = 1
    /\ ret.result.method = "exact_product"

\* The first code in index order with the best ratio.
BestCode(i) ==
    /\ \A j \in DOMAIN AllCodes : CodeRatios[j] <= CodeRatios[i]
    /\ \A j \in 1..(i - 1) : CodeRatios[j] < CodeRatios[i]
NoExactOrSynonym == NoExactCandidate /\ ~SynonymCandidate

\* C8: when the first three strategies have no candidate and a code is
\* given, the method is fuzzy_article exactly when the best ratio between
\* the code and a catalog code is at least 85, whatever the threshold, and
\* then the result is the first entry of the first best-scoring code with
\* that ratio as score.
FuzzyCodeCutoff ==
    (Returned /\ NoExactOrSynonym /\ CodeGiven) =>
        /\ (ret.result.method = "fuzzy_article")
               <=> (\E i \in DOMAIN AllCodes : CodeRatios[i] >= 85)
        /\ (ret.result.method = "fuzzy_article") =>
               \E i \in DOMAIN AllCodes :
                   /\ BestCode(i)
                   /\ ret.result =
                          Result(AllCodes[i],
                                 get_products_by_article(cache, AllCodes[i])[1].name,
                                 CodeRatios[i], "fuzzy_article")

\* C8: two catalog codes tie for the best ratio, which is below 90, and the
\* first of them came back as fuzzy_article under threshold 0.
FuzzyCodeTie ==
    /\ Returned /\ NoExactOrSynonym /\ CodeGiven
    /\ ret.result.method = "fuzzy_article"
    /\ ret.result.score < 90
    /\ ret.threshold = 0
    /\ \E i, j \in DOMAIN AllCodes : i < j /\ BestCode(i) /\ CodeRatios[j] = CodeRatios[i]

\* Entry j is ranked before entry i by fuzzy score, equal scores in catalog
\* order; the top five are the entries with fewer than five before them.
RankedBefore(j, i) ==
    \/ NameScores[j] > NameScores[i]
    \/ NameScores[j] = NameScores[i] /\ j < i
InTopFive(i) ==
    Cardinality({j \in DOMAIN all_products : RankedBefore(j, i)}) < 5
NoEarlierCandidate == NoExactOrSynonym /\ ~FuzzyCodeCandidate

\* C9: a name returned by the fuzzy name strategy is among the top five by
\* tokenSortRatio and scores at least the threshold; when the strategy is
\* reached and no name reaches the threshold the result is the no-match
\* result.
FuzzyNameSurvivorsOnly ==
    Returned =>
        /\ (ret.result.method = "fuzzy_product_token_enhanced") =>
               \E i \in DOMAIN all_products :
                   /\ all_products[i].name = ret.result.name
                   /\ NameScores[i] >= ret.threshold
                   /\ InTopFive(i)
        /\ (NoEarlierCandidate /\ ~FuzzyNameCandidate) => ret.result = NoMatch

\* C9: an entry ranked sixth reaches the threshold, shares the size token of
\* the name, which none of the top five does, and is not what came back.
SixthNotReturned ==
    /\ Returned
    /\ ret.result.method = "fuzzy_product_token_enhanced"
    /\ \E i \in DOMAIN all_products :
           /\ NameScores[i] >= ret.threshold
           /\ ~InTopFive(i)
           /\ all_products[i].name /= ret.result.name
           /\ extract_tokens(all_products[i].name) \cap extract_tokens(ret.input_product) /= {}
           /\ \A j \in DOMAIN all_products :
                  InTopFive(j) => extract_tokens(all_products[j].name) = {}

\* The names that survive the threshold, in fuzzy rank order, and the
\* combined score of each.
Survivors ==
    AtLeast(extract(ret.input_product, ProductNames(all_products), 5), ret.threshold)
Combined(i) ==
    CombinedScore(Survivors[i][2],
                  token_similarity(extract_tokens(ret.input_product),
                                   extract_tokens(Survivors[i][1])))

\* C10: when several names survive the threshold, the name returned is the
\* survivor with the highest combined score, the earlier in fuzzy rank on
\* ties.
MaxCombinedWins ==
    (Returned /\ ret.result.method = "fuzzy_product_token_enhanced"
              /\ Len(Survivors) > 1) =>
        \E i \in DOMAIN Survivors :
            /\ \A j \in DOMAIN Survivors : FracAtLeast(Combined(i), Combined(j))
            /\ \A j \in 1..(i - 1) : FracGreater(Combined(i), Combined(j))
            /\ ret.result.name = Survivors[i][1]

\* The integers nearest to a fraction: one, or two when it lies halfway.
Rounded(x) == {k \in 0..130 : 2 * x[1] - x[2] <= 2 * k * x[2] /\ 2 * k * x[2] <= 2 * x[1] + x[2]}

\* C11: when several names survive the threshold, the score returned is the
\* combined score of the name returned, rounded to an integer.
CombinedScoreReported ==
    (Returned /\ ret.result.method = "fuzzy_product_token_enhanced"
              /\ Len(Survivors) > 1) =>
        \E i \in DOMAIN Survivors :
            /\ ret.result.name = Survivors[i][1]
            /\ ret.result.score \in Rounded(Combined(i))

\* The colours a text carries.
ColoursOf(text) == {color \in colors : Contains(lower(text), color)}
\* Two names that are equal but for one colour, at the same place, with the
\* first carrying colour1 and the second colour2.
VariantPair(name1, name2, colour1, colour2) ==
    \E k \in 1..Len(name1) :
        /\ k + Len(colour1) - 1 <= Len(name1)
        /\ k + Len(colour2) - 1 <= Len(name2)
        /\ lower(SubSeq(name1, k, k + Len(colour1) - 1)) = colour1
        /\ lower(SubSeq(name2, k, k + Len(colour2) - 1)) = colour2
        /\ SubSeq(name1, 1, k - 1) = SubSeq(name2, 1, k - 1)
        /\ SubSeq(name1, k + Len(colour1), Len(name1))
               = SubSeq(name2, k + Len(colour2), Len(name2))
\* Entry i carries the colour of the call's name and entry j is the same
\* name in another colour, under another code.
ColourVariants(i, j) ==
    /\ all_products[i].article /= all_products[j].article
    /\ \E colour1 \in ColoursOf(ret.input_product) :
           \E colour2 \in ColoursOf(all_products[j].name) \ {colour1} :
               VariantPair(all_products[i].name, all_products[j].name, colour1, colour2)
\* A call by name only, with threshold 80, of a name that carries one
\* colour and is not a synonym.
NameOnlyAt80 ==
    /\ Returned /\ NameGiven /\ ~CodeGiven /\ ret.threshold = 80
    /\ Cardinality(ColoursOf(ret.input_product)) = 1
    /\ ~SynonymCandidate

ResultShape ==
    Returned =>
        /\ (ret.result.article = None) <=> (ret.result.name = None)
        /\ (ret.result.name = None) <=> (ret.result.method = "None")
        /\ (ret.result.method = "None") <=> (ret.result.score = 0)
        /\ (~ExactCodeCandidate /\ ~ExactNameCandidate /\ ~SynonymCandidate
              /\ ~FuzzyCodeCandidate /\ ~FuzzyNameCandidate) => ret.result = NoMatch
        /\ (ret.result.method /= "None") => ret.result.score \in 1..100

\* The seven method tags of a match.
MethodTags ==
    {"exact_article", "exact_article_disambiguated", "exact_product",
     "exact_product_token_disambiguated", "synonym_match", "fuzzy_article",
     "fuzzy_product_token_enhanced"}

\* C14: the method of every result is None or one of the seven tags.
ClosedMethodSet ==
    Returned => ret.result.method \in MethodTags \cup {"None"}

\* C15: a call of match_product leaves the article index, the name index,
\* the synonym map, the product list, the version and every count of
\* get_cache_info as they were.
MatchProductReadOnly ==
    [][(pc = "idle" /\ pc' = "returned") =>
           (UNCHANGED cacheVars /\ get_cache_info' = get_cache_info)]_vars

\* C15: a call has returned without a match on a filled cache that holds
\* neither the code nor the name it was given.
MissOnFilledCache ==
    /\ Returned
    /\ CodeGiven /\ ~DictHas(article_to_products, ret.input_article)
    /\ NameGiven /\ ~DictHas(product_to_articles, ret.input_product)
    /\ all_products /= <<>>
    /\ ret.result = NoMatch

---------------------------------------------------------------------------
(* Properties of the cache under threads.  They are stated over             *)
(* SpecConcurrent: reader is the call of match_product in progress.         *)

\* C17: the list of all codes the matcher enumerates for fuzzy code
\* matching is the list of a complete generation: of the current one, or,
\* while a refresh runs, of the one it replaces or of the one it builds.
EnumerationOfOneGeneration ==
    reader.complete /= {} => reader.view.all_articles \in reader.complete

\* C18: a call returns what match_product returns when it runs entirely
\* against the generation that was current at its first read.
SingleGenerationResult ==
    (reader.pc = "done" /\ reader.started) =>
        reader.result = match_product(reader.start, reader.input_product,
                                      reader.input_article, reader.threshold)

\* C19: while a refresh is in progress, a call of match_product that is
\* about to read the cache can take that step.
LookupNeverWaits ==
    (lock /= "free" /\ reader.pc \in Range(Sites)) => CanLookup

\* C20: the i-th refresh to complete reports version i, and the version is
\* the number of refreshes completed, whatever the threads and the reader
\* do in between; it is 0 before the first one.
VersionCountsRefreshes ==
    /\ log = [i \in 1..Len(log) |-> i]
    /\ version = Len(log)

\* C20: a refresh called at version 0 has just reported version 2: another
\* thread's refresh completed between its call and its own completion.
OverlappingRefreshesCounted ==
    \E t \in Threads :
        /\ refreshers[t].pc = "release"
        /\ refreshers[t].called_at = 0
        /\ log = <<1, 2>>
        /\ version = 2

---------------------------------------------------------------------------
(* Properties of a build.  They are stated over SpecBuild, after a refresh  *)
(* has returned: ret holds the snapshots it was given.                      *)

\* The positions of the snapshot rows that have both a code and a name.
EntryRows ==
    {i \in DOMAIN ret.products_data :
        /\ ret.products_data[i].article \notin {None, <<>>}
        /\ ret.products_data[i].name \notin {None, <<>>}}
\* The synonyms of the synonym snapshot, lower-cased.
FoldedSynonyms ==
    UNION {{lower(r.synonyms.items[k]) : k \in DOMAIN r.synonyms.items} :
               r \in {ret.db_products[i] : i \in {j \in DOMAIN ret.db_products :
                                                    ret.db_products[j].synonyms.kind = "list"}}}
RECURSIVE BucketSizes(_)
BucketSizes(d) == IF d = <<>> THEN 0 ELSE Len(d[1][2]) + BucketSizes(Tail(d))
\* The codes, names and synonyms that occur in any snapshot.
EveryRow == Range(CatalogRows) \cup Range(RankRows) \cup Range(VariantRows)
EveryCode == {r.article : r \in EveryRow} \ {None}
EveryName == {r.name : r \in EveryRow}
EverySynonym ==
    UNION {Range(DbRows[i].synonyms.items) :
               i \in {j \in DOMAIN DbRows : DbRows[j].synonyms.kind = "list"}}
\* The entries of the snapshot rows at the positions, in row order.
RECURSIVE RowsAt(_, _)
RowsAt(rows, positions) ==
    IF rows = <<>> THEN <<>>
    ELSE RowsAt(SubSeq(rows, 1, Len(rows) - 1), positions)
         \o (IF Len(rows) \in positions THEN <<rows[Len(rows)]>> ELSE <<>>)

\* C21: after a build, total_products is the number of snapshot rows with
\* a code and a name and the sum of the bucket sizes of either index,
\* unique_articles and unique_product_names count the distinct codes and
\* names, total_synonyms counts the distinct lower-cased synonyms, and every
\* entry of all_products is in the bucket of its code, with its code in the
\* bucket of its name.
IndexesConsistent ==
    Returned =>
        /\ ret.info.total_products = Cardinality(EntryRows)
        /\ BucketSizes(article_to_products) = Cardinality(EntryRows)
        /\ BucketSizes(product_to_articles) = Cardinality(EntryRows)
        /\ ret.info.unique_articles =
               Cardinality({ret.products_data[i].article : i \in EntryRows})
        /\ ret.info.unique_product_names =
               Cardinality({ret.products_data[i].name : i \in EntryRows})
        /\ ret.info.total_synonyms = Cardinality(FoldedSynonyms)
        /\ ret.info.version = version
        /\ \A i \in DOMAIN all_products :
               /\ \E k \in DOMAIN get_products_by_article(cache, all_products[i].article) :
                      /\ get_products_by_article(cache, all_products[i].article)[k].article
                             = all_products[i].article
                      /\ get_products_by_article(cache, all_products[i].article)[k].name
                             = all_products[i].name
               /\ all_products[i].article
                      \in Range(get_articles_by_product(cache, all_products[i].name))

\* C21: a build from a snapshot with a row that lacks a code, a code with
\* two names and a name with two codes has returned.
MixedSnapshotBuilt ==
    /\ Returned
    /\ Cardinality(EntryRows) < Len(ret.products_data)
    /\ ret.info.unique_articles < ret.info.total_products
    /\ ret.info.unique_product_names < ret.info.total_products
    /\ ret.info.total_synonyms > 0

\* C22: the bucket of every code lists the entries of the rows with that
\* code in row order, and the bucket of every name lists the codes of the
\* rows with that name in row order.
BucketsInSnapshotOrder ==
    Returned =>
        /\ \A code \in EveryCode :
               LET rows == RowsAt(ret.products_data,
                                  {i \in EntryRows : ret.products_data[i].article = code})
               IN  /\ Len(get_products_by_article(cache, code)) = Len(rows)
                   /\ \A k \in DOMAIN rows :
                          get_products_by_article(cache, code)[k].name = rows[k].name
        /\ \A name \in EveryName :
               LET rows == RowsAt(ret.products_data,
                                  {i \in EntryRows : ret.products_data[i].name = name})
               IN  get_articles_by_product(cache, name)
                       = [k \in DOMAIN rows |-> rows[k].article]

\* C22: a bucket holds two entries whose rows are not next to each other
\* in the snapshot, the earlier row first.
SeparatedRowsInOrder ==
    /\ Returned
    /\ \E i, j \in EntryRows :
           /\ j > i + 1
           /\ ret.products_data[i].article = ret.products_data[j].article
           /\ ret.products_data[i].name /= ret.products_data[j].name
           /\ \A k \in EntryRows :
                  ret.products_data[k].article = ret.products_data[i].article
                      => k \in {i, j}
           /\ get_products_by_article(cache, ret.products_data[i].article)[1].name
                  = ret.products_data[i].name

\* C23: after a refresh, a code, a name or a synonym that is not in the
\* snapshots it was given is not found, whatever the cache held before, and
\* all_products holds the snapshot's entries only.
RefreshReplacesWholesale ==
    Returned =>
        /\ \A code \in EveryCode :
               code \notin {ret.products_data[i].article : i \in EntryRows}
                   => get_products_by_article(cache, code) = <<>>
        /\ \A name \in EveryName :
               name \notin {ret.products_data[i].name : i \in EntryRows}
                   => get_articles_by_product(cache, name) = <<>>
        /\ \A text \in EverySynonym :
               lower(text) \notin FoldedSynonyms
                   => get_synonym_match(cache, text) = NoSynonym
        /\ Len(all_products) = Cardinality(EntryRows)
        /\ \A i \in DOMAIN all_products :
               \E k \in EntryRows :
                   /\ ret.products_data[k].article = all_products[i].article
                   /\ ret.products_data[k].name = all_products[i].name

\* C23: the second refresh found a code, a name and a synonym that its
\* snapshots do not hold.
EarlierGenerationDropped ==
    /\ Returned
    /\ version = 2
    /\ \E code \in EveryCode :
           /\ get_products_by_article(ret.before, code) /= <<>>
           /\ get_products_by_article(cache, code) = <<>>
    /\ \E name \in EveryName :
           /\ get_articles_by_product(ret.before, name) /= <<>>
           /\ get_articles_by_product(cache, name) = <<>>
    /\ \E text \in EverySynonym :
           /\ get_synonym_match(ret.before, text) /= NoSynonym
           /\ get_synonym_match(cache, text) = NoSynonym
    /\ all_products /= <<>>

---------------------------------------------------------------------------
(* Properties of the synonym learner.  They are stated over the handler   *)
(* that has just returned: ret.op names it, ret holds its arguments and   *)
(* what it returned, ret.before what it found.                            *)

Observing == pc = "returned" /\ ret.op = "fuzzy_match_product"
Approving == pc = "returned" /\ ret.op = "approve_synonym"
Rejecting == pc = "returned" /\ ret.op = "reject_synonym"

\* The pending suggestions for the pair (synonym, code).
ForPair(pending, synonym, code) ==
    SelectSeq(pending, LAMBDA s : s.synonym = synonym /\ s.article = code)

\* C24: listPending never holds two suggestions with the same synonym text
\* and the same code, however often the same strong fuzzy result is
\* observed.
OnePendingPerPair ==
    \A i, j \in DOMAIN pending_synonyms :
        (/\ pending_synonyms[i].synonym = pending_synonyms[j].synonym
         /\ pending_synonyms[i].article = pending_synonyms[j].article) => i = j

\* The strong fuzzy result of the call that has returned: a score in
\* [85, 100) with the code and the name resolved.
StrongFuzzy ==
    /\ 85 <= ret.result.score /\ ret.result.score < 100
    /\ ret.result.article /= None
    /\ ret.result.name /= None

\* C25: a call of fuzzy_match_product adds a pending suggestion only when
\* its result has a score in [85, 100) and a code and a name; and every
\* pending suggestion has a score from 85 to 99 and the status pending.
SuggestionsOnlyForStrongFuzzy ==
    /\ \A i \in DOMAIN pending_synonyms :
           /\ 85 <= pending_synonyms[i].score /\ pending_synonyms[i].score <= 99
           /\ pending_synonyms[i].status = "pending"
           /\ pending_synonyms[i].article /= None
           /\ pending_synonyms[i].product /= None
    /\ Observing =>
           /\ ~StrongFuzzy => pending_synonyms = ret.before.pending_synonyms
           /\ \/ pending_synonyms = ret.before.pending_synonyms
              \/ /\ Len(pending_synonyms) = Len(ret.before.pending_synonyms) + 1
                 /\ SubSeq(pending_synonyms, 1, Len(ret.before.pending_synonyms))
                        = ret.before.pending_synonyms
                 /\ pending_synonyms[Len(pending_synonyms)].synonym = ret.input_product
                 /\ pending_synonyms[Len(pending_synonyms)].article = ret.result.article
                 /\ pending_synonyms[Len(pending_synonyms)].product = ret.result.name
                 /\ pending_synonyms[Len(pending_synonyms)].score = ret.result.score

\* C25 witness: a strong fuzzy match by code has just left a second
\* suggestion, after a synonym match that left none.
StrongFuzzySuggested ==
    /\ Observing
    /\ StrongFuzzy
    /\ ret.result.method = "fuzzy_article"
    /\ Len(pending_synonyms) = Len(ret.before.pending_synonyms) + 1
    /\ Len(pending_synonyms) >= 2
    /\ DictHas(usage_stats, <<"R","9">>)

\* The texts a usage counter can be kept under: the input texts of the
\* calls, as given and lower-cased.
UsageTexts ==
    {call[1] : call \in LearnerCalls} \cup {lower(call[1]) : call \in LearnerCalls}

\* What the step adds to the counter of text: 1 when the step is a call of
\* fuzzy_match_product with that input text whose result has the method
\* synonym_match.
Counted(text) ==
    IF /\ pc = "idle" /\ pc' = "returned"
       /\ ret'.op = "fuzzy_match_product"
       /\ ret'.result.method = "synonym_match"
       /\ ret'.input_product = text
    THEN 1 ELSE 0

\* C26: every step changes the usage counters by exactly this: the counter
\* under the raw input text grows by 1 when the step is a call whose result
\* has the method synonym_match; a call with another result, an approve, a
\* reject and a refresh change no counter.
UsageCountsSynonymResults ==
    [][/\ \A text \in UsageTexts :
              DictGet(usage_stats', text, 0) = DictGet(usage_stats, text, 0) + Counted(text)
       /\ \A i \in DOMAIN usage_stats' : usage_stats'[i][1] \in UsageTexts]_vars

\* C26 witness: "R9" has matched a synonym twice and an approved synonym
\* once; the counter of "R9" is not kept under the map's key "r9".
SynonymUsesCounted ==
    /\ Observing
    /\ ret.result.method = "synonym_match"
    /\ ret.input_product = <<"R","9">>
    /\ DictHas(synonym_map, <<"r","9">>)
    /\ DictGet(usage_stats, <<"R","9">>, 0) = 2
    /\ ~DictHas(usage_stats, <<"r","9">>)
    /\ DictGet(usage_stats, <<"a","b"," ","2","m","m"," ","c">>, 0) = 1
    /\ ret.before.usage_stats /= usage_stats

\* The rows of the products table that carry the code, and the synonym
\* list such a row persists (empty when its column holds no list).
EntriesFor(table, code) == {i \in DOMAIN table : table[i].article_number = code}
Persisted(row) == IF row.synonyms.kind = "list" THEN row.synonyms.items ELSE <<>>
PersistedBefore(code) ==
    {Persisted(ret.before.products_table[i]) :
         i \in EntriesFor(ret.before.products_table, code)}
NoEntry == EntriesFor(ret.before.products_table, ret.article) = {}
PresentAlready ==
    \E list \in PersistedBefore(ret.article) : \E i \in DOMAIN list : list[i] = ret.synonym

\* C27: approve_synonym returns False when the table has no row for the
\* code and when the row's synonym list already holds the synonym; the
\* table and the pending suggestions are then as it found them.  No row's
\* synonym list ever holds a synonym twice.
ApproveRefusedIsNoOp ==
    /\ \A i \in DOMAIN products_table :
           \A j, k \in DOMAIN Persisted(products_table[i]) :
               Persisted(products_table[i])[j] = Persisted(products_table[i])[k] => j = k
    /\ (Approving /\ (NoEntry \/ PresentAlready)) =>
           /\ ret.returned = FALSE
           /\ products_table = ret.before.products_table
           /\ pending_synonyms = ret.before.pending_synonyms

\* C27 witness: a synonym approved earlier, and suggested again before the
\* cache was refreshed, is approved a second time.
ApprovedTwice ==
    /\ Approving
    /\ PresentAlready
    /\ ret.synonym = <<"a","b"," ","2","m","m"," ","c">>
    /\ ForPair(pending_synonyms, ret.synonym, ret.article) /= <<>>
    /\ Len(pending_synonyms) >= 2

RejectRemovesThePair ==
    Rejecting =>
        /\ pending_synonyms =
               SelectSeq(ret.before.pending_synonyms,
                         LAMBDA s : ~(s.synonym = ret.synonym /\ s.article = ret.article))
        /\ ret.returned = (Len(pending_synonyms) < Len(ret.before.pending_synonyms))
        /\ ret.returned =
               (ForPair(ret.before.pending_synonyms, ret.synonym, ret.article) /= <<>>)
        /\ ForPair(pending_synonyms, ret.synonym, ret.article) = <<>>
        /\ products_table = ret.before.products_table
        /\ usage_stats = ret.before.usage_stats

\* C29 witness: the rejected pair was pending between two suggestions for
\* other pairs, one of them with the same synonym; a synonym has been used
\* and one has been approved.
RejectedBetweenOthers ==
    /\ Rejecting
    /\ ret.returned
    /\ Len(ret.before.pending_synonyms) = 3
    /\ ret.before.pending_synonyms[2].synonym = ret.synonym
    /\ ret.before.pending_synonyms[2].article = ret.article
    /\ Len(pending_synonyms) = 2
    /\ \E i \in DOMAIN pending_synonyms : pending_synonyms[i].synonym = ret.synonym
    /\ usage_stats /= <<>>
    /\ products_table /= StoredProducts

\* How often the suggestion stands in the list.
Occurrences(pending, suggestion) ==
    Len(SelectSeq(pending, LAMBDA s : s = suggestion))

\* The step is an approve that returns True or a reject, for the pair of
\* the suggestion.
RemovesPair(suggestion) ==
    /\ pc = "idle" /\ pc' = "returned"
    /\ ret'.op \in {"approve_synonym", "reject_synonym"}
    /\ ret'.synonym = suggestion.synonym
    /\ ret'.article = suggestion.article
    /\ ret'.op = "approve_synonym" => ret'.returned

\* C30: a pending suggestion stays in the list through every step (a call
\* of fuzzy_match_product, a refresh, an approve or a reject for another
\* pair, an approve that returns False) other than an approve that returns
\* True or a reject for its own synonym and code.
PendingStaysUntilReviewed ==
    [][\A i \in DOMAIN pending_synonyms :
           \/ RemovesPair(pending_synonyms[i])
           \/ /\ Occurrences(pending_synonyms', pending_synonyms[i])
                     >= Occurrences(pending_synonyms, pending_synonyms[i])
              /\ \E j \in DOMAIN pending_synonyms' :
                     /\ j <= i
                     /\ pending_synonyms'[j] = pending_synonyms[i]]_vars

\* C30 witness: a suggestion is still first in the list after two
\* refreshes, a counted synonym use, an approve for another pair and the
\* reject of another pair that has just returned True.
SuggestionOutlivesOthers ==
    /\ Rejecting
    /\ ret.returned
    /\ version >= 2
    /\ usage_stats /= <<>>
    /\ products_table /= StoredProducts
    /\ pending_synonyms /= <<>>
    /\ pending_synonyms[1] = ret.before.pending_synonyms[1]
    /\ pending_synonyms[1].article = <<"1","2","3">>
    /\ ret.article = <<"1","2","3","4">>

---------------------------------------------------------------------------
(* Properties of the learner under threads *)

\* What one request leaves when it is served alone: learner is the record
\* of the pending suggestions, the usage counters and the products table.
ServedCall(learner, result, text) ==
    [pending_synonyms |-> AfterSuggesting(learner.pending_synonyms, result, text),
     usage_stats |-> AfterTracking(learner.usage_stats, result, text),
     products_table |-> learner.products_table]
ServedApprove(learner, synonym, article, product) ==
    IF Approved(synonym, article, product)
    THEN [pending_synonyms |-> WithoutPair(learner.pending_synonyms, synonym, article),
          usage_stats |-> learner.usage_stats,
          products_table |-> update_product(learner.products_table, article,
                                            Append(ExistingSynonyms(product), synonym))]
    ELSE learner
ServedReject(learner, synonym, article) ==
    [learner EXCEPT !.pending_synonyms = WithoutPair(learner.pending_synonyms,
                                                      synonym, article)]
Served(learner, h) ==
    CASE h.op = "fuzzy_match_product" ->
             ServedCall(learner,
                        match_product(cache, h.text, h.article, RequestThreshold), h.text)
      [] h.op = "approve_synonym" ->
             ServedApprove(learner, h.text, h.article,
                           get_product_by_article(learner.products_table, h.article))
      [] h.op = "reject_synonym" -> ServedReject(learner, h.text, h.article)

AllServed == \A t \in Threads : handlers[t].pc = "done"

\* C31: when two requests that arrived together have been served, the
\* pending suggestions, the usage counters and the products table are
\* those that serving one request after the other, in one of the two
\* orders, leaves.
RequestsSerializable ==
    AllServed =>
        \E first \in Threads :
            \E second \in Threads \ {first} :
                LearnerState = Served(Served(at_start[1], handlers[first]),
                                      handlers[second])

---------------------------------------------------------------------------
(* Properties of the usage statistics *)

Reporting == pc = "returned" /\ ret.op = "get_usage_statistics"

\* The step is a call of fuzzy_match_product whose result has the method
\* synonym_match.
SynonymObserved ==
    /\ pc = "idle" /\ pc' = "returned"
    /\ ret'.op = "fuzzy_match_product"
    /\ ret'.result.method = "synonym_match"

\* The texts that have a counter above 0, and the sum of the counters.
CountedTexts == {text \in UsageTexts : DictGet(usage_stats, text, 0) > 0}
RECURSIVE SumOfCounters(_, _)
SumOfCounters(stats, texts) ==
    IF texts = {} THEN 0
    ELSE LET text == CHOOSE t \in texts : TRUE
         IN  DictGet(stats, text, 0) + SumOfCounters(stats, texts \ {text})

\* C32: the sum of the counters is 0 at the start and grows by 1 with
\* every call whose result has the method synonym_match, and with no other
\* step; the number of counted texts grows by 1 with every such call whose
\* input text has not been counted before.  get_usage_statistics returns
\* that sum as total_usage and that number as total_synonyms, and top_used
\* lists every counter once, by count in non-increasing order.
UsageStatisticsConsistent ==
    /\ SumOfCounters(usage_stats, UsageTexts) = 0 /\ CountedTexts = {}
    /\ [][/\ SumOfCounters(usage_stats', UsageTexts) =
                 SumOfCounters(usage_stats, UsageTexts) + (IF SynonymObserved THEN 1 ELSE 0)
          /\ Cardinality(CountedTexts') =
                 Cardinality(CountedTexts)
                     + (IF SynonymObserved /\ ret'.input_product \notin CountedTexts
                        THEN 1 ELSE 0)
          /\ (pc' = "returned" /\ ret'.op = "get_usage_statistics") =>
                 /\ ret'.returned.total_usage = SumOfCounters(usage_stats, UsageTexts)
                 /\ ret'.returned.total_synonyms = Cardinality(CountedTexts)
                 /\ Len(ret'.returned.top_used) = Cardinality(CountedTexts)
                 /\ \A text \in CountedTexts :
                        \E j \in DOMAIN ret'.returned.top_used :
                            ret'.returned.top_used[j]
                                = <<text, DictGet(usage_stats, text, 0)>>
                 /\ \A i, j \in DOMAIN ret'.returned.top_used :
                        i < j => ret'.returned.top_used[i][2]
                                     >= ret'.returned.top_used[j][2]]_vars

\* C32 witness: the text counted second has been used more often than the
\* text counted first and is reported before it.
LaterTextReportedFirst ==
    /\ Reporting
    /\ ret.returned.total_synonyms = 2
    /\ ret.returned.total_usage = 3
    /\ Len(usage_stats) = 2
    /\ ret.returned.top_used[1] = usage_stats[2]
    /\ ret.returned.top_used[2] = usage_stats[1]
    /\ ret.returned.top_used[1][2] = 2

---------------------------------------------------------------------------
(* Properties of order processing *)

Processed == pc = "returned" /\ ret.op = "process_order"

\* C33: process_order returns for every order line, whatever method
\* match_product gave its result: it raises nothing.
OrdersNeverRaise == Processed => ret.raised = "None"

---------------------------------------------------------------------------
(* Properties of synonym results *)

\* C34: a result with method synonym_match has score 100 and an article
\* that the cache knows: get_products_by_article gives at least one name.
SynonymResultsInCatalog ==
    (pc = "returned" /\ ret.result.method = "synonym_match")
        => /\ ret.result.score = 100
           /\ get_products_by_article(cache, ret.result.article) /= <<>>

---------------------------------------------------------------------------
(* Properties of the approve route *)

\* What a call with the name alone gives on cache c: the article approved,
\* score 100, found as a synonym unless the text is a name of the catalog,
\* and nothing for the learner to suggest.
ResolvesTo(c, pending, synonym, article, result) ==
    /\ result.article = article
    /\ result.score = 100
    /\ (get_articles_by_product(c, synonym) = <<>> => result.method = "synonym_match")
    /\ AfterSuggesting(pending, result, synonym) = pending

\* C35: when the route has approved (synonym, article) and refreshed the
\* cache, a call with that text as the name and no article returns the
\* article with score 100 and leaves the pending list as it is.
ApprovedTextResolves ==
    [][(pc = "idle" /\ pc' = "returned" /\ ret'.op = "approve_synonym_route"
            /\ ret'.returned)
          => ResolvesTo(cache', pending_synonyms', ret'.synonym, ret'.article,
                        match_product(cache', ret'.synonym, None, RequestThreshold))]_vars

---------------------------------------------------------------------------
(* Properties of a refresh that raises *)

\* C36: when refresh leaves by an exception the cache is the one the call
\* found, and so is the version.
FailedRefreshKeepsGeneration ==
    pc = "raised" => (cache = ret.before /\ version = ret.version)

---------------------------------------------------------------------------
(* Properties of the scores and of the exact name strategy *)

\* C37: a result with method fuzzy_product_token_enhanced has a score that
\* is at least the threshold of the call.
TokenEnhancedReachesThreshold ==
    (Returned /\ ret.result.method = "fuzzy_product_token_enhanced")
        => ret.result.score >= ret.threshold
\* C37: under a positive threshold several names were valid and the one
\* returned is not the first of them, with a score other than its own.
LaterSurvivorReturned ==
    /\ Returned
    /\ ret.result.method = "fuzzy_product_token_enhanced"
    /\ ret.threshold > 0
    /\ Len(Survivors) > 1
    /\ \E i \in 2..Len(Survivors) :
           /\ ret.result.name = Survivors[i][1]
           /\ ret.result.name /= Survivors[1][1]
           /\ ret.result.score /= Survivors[i][2]

\* The names of the cache that are the text but for the case of letters.
NamesIgnoringCase(text) ==
    {i \in DOMAIN product_to_articles : lower(product_to_articles[i][1]) = lower(text)}
ExactProductMethods ==
    {"exact_product", "exact_product_token_disambiguated", "exact_product_first"}

\* C38: a call whose code is no key of the cache and whose name is a name
\* of the cache but for the case of letters returns, by the exact name
\* strategy and with score 100, a code of such a name.
ExactNameIgnoresCase ==
    (Returned /\ Truthy(ret.input_product)
              /\ get_products_by_article(cache, ret.input_article) = <<>>
              /\ NamesIgnoringCase(ret.input_product) /= {})
        => /\ ret.result.method \in ExactProductMethods
           /\ ret.result.score = 100
           /\ \E i \in NamesIgnoringCase(ret.input_product) :
                  \E k \in DOMAIN product_to_articles[i][2] :
                      product_to_articles[i][2][k] = ret.result.article

---------------------------------------------------------------------------
(* Properties of the unmatched tracker *)

\* The count a summary reports for a reason, 0 when it has no entry for it.
CountOf(summary, reason) ==
    IF DictHas(summary.by_reason, reason)
    THEN DictGet(summary.by_reason, reason, [count |-> 0]).count ELSE 0
RECURSIVE SumOfCounts(_)
SumOfCounts(by_reason) ==
    IF by_reason = <<>> THEN 0 ELSE by_reason[1][2].count + SumOfCounts(Tail(by_reason))
Calling(op) == pc = "idle" /\ pc' = "returned" /\ ret'.op = op
\* What get_summary reports after a step, against what it reported before:
\* unmatched more in total, warnings more, and more for each reason.
Reports(unmatched, warnings, counted) ==
    /\ Summary'.total_unmatched = Summary.total_unmatched + unmatched
    /\ Summary'.total_warnings = Summary.total_warnings + warnings
    /\ \A reason \in TrackedReasons :
           CountOf(Summary', reason) = CountOf(Summary, reason) + counted[reason]

\* C39: a new tracker reports zero everywhere; each call of add_unmatched
\* adds one to total_unmatched and to the count of its reason and to nothing
\* else, each call of add_warning adds one to total_warnings and to nothing
\* else, no other step changes a number, and total_unmatched is always the
\* sum of the counts by reason.
SummaryCountsCalls ==
    /\ (Summary.total_unmatched = 0 /\ Summary.total_warnings = 0
            /\ Summary.by_reason = <<>>)
    /\ [](Summary.total_unmatched = SumOfCounts(Summary.by_reason))
    /\ [][IF Calling("add_unmatched")
          THEN Reports(1, 0, [reason \in TrackedReasons |->
                                  IF reason = ret'.reason THEN 1 ELSE 0])
          ELSE IF Calling("add_warning")
          THEN Reports(0, 1, [reason \in TrackedReasons |-> 0])
          ELSE Reports(0, 0, [reason \in TrackedReasons |-> 0])]_vars
\* C39: get_summary is called after three calls of add_unmatched, two of
\* them with one reason, and a call of add_warning.
SummaryOfMixedCalls ==
    /\ Returned /\ ret.op = "get_summary"
    /\ Summary.total_unmatched = 3
    /\ Summary.total_warnings >= 1
    /\ \E reason \in TrackedReasons : CountOf(Summary, reason) = 2

---------------------------------------------------------------------------
(* Properties of the column detector *)

\* The columns whose name is, but for case, one of the keywords.
NamedBy(columns, keywords) ==
    {i \in DOMAIN columns : \E k \in DOMAIN keywords : lower(columns[i]) = keywords[k]}
\* The role has a column named by a strong keyword only if the column
\* selected for it is one.
PrefersNamed(columns, selected, strong) ==
    NamedBy(columns, strong) /= {}
        => \E i \in NamedBy(columns, strong) : columns[i] = selected

\* C40: for each role, when a column is named exactly by a strong keyword
\* of the role, detect_columns selects such a column, wherever it stands in
\* the list.
StrongNamesPreferred ==
    (Returned /\ ret.op = "detect_columns")
        => /\ PrefersNamed(ret.columns, ret.returned.product_col, STRONG_PRODUCT_KEYWORDS)
           /\ PrefersNamed(ret.columns, ret.returned.article_col, STRONG_ARTICLE_KEYWORDS)
           /\ PrefersNamed(ret.columns, ret.returned.quantity_col,
                           STRONG_QUANTITY_KEYWORDS)

=============================================================================
